---- MODULE Spec2Model ----
(***************************************************************************)
(* PrefetchManager (package stream): the prefetch and batch-download       *)
(* engine.  Three work queues feed a pool of identical workers; a janitor  *)
(* sweeps expired index entries and dentry caches; Close shuts the pool    *)
(* down and drains the download queue.                                     *)
(*                                                                         *)
(* Strings are sequences of one-character strings, byte slices are         *)
(* sequences of 0..255.  Pointers to IndexInfo are object ids, a pointer   *)
(* to a FileInfo parsed from an index is <<object id, line number>>.       *)
(***************************************************************************)
EXTENDS Integers, Sequences, FiniteSets, TLC

\* ------------------------------------------------------------------ bounds

\* capacity of each of the three channels (1024 / 10240000 in the source)
ChanCap == 2
\* number of download / prefetch requests the callers issue in one run
MaxJobs == 3
\* the same where the path queue is filled while Close is under way
MaxLiveCalls == 4
\* number of AddIndexFilepath calls in one run (each allocates an IndexInfo)
MaxIndexInfos == 2
\* the same where two indexes share a parent directory and one is refreshed
MaxSharedIndexInfos == 3
\* the clock stops here
MaxTime == 3
\* calls of AddTotalReadCount, and of AddAppReadCount, in one run
MaxReads == 3
\* one-second ticks of the janitor in one run
MaxSeconds == 2
\* the largest prefetchThreads a specification starts the engine with
MaxWorkers == 2
\* the longest index file has this many lines
MaxLines == 3
\* the records one response writer receives in the framing specification
MaxRecords == 2

\* ------------------------------------------------------- processes, inputs

Callers == {"c1", "c2"}
Workers == 1..MaxWorkers
Writers == {"rw1"}
GateCallers == {"c1"}
Nil == "nil"

\* proto.RootIno
RootIno == 1

mountPoint == <<"/", "m">>

\* the paths callers pass to DownloadPath / PrefetchByPath
PathF == <<"/", "m", "/", "d", "/", "f">>
PathG == <<"/", "m", "/", "d", "/", "g">>
PathMount == <<"/", "m">>
PathSlashes == <<"/", "m", "/", "/">>
PathMountSlash == <<"/", "m", "/">>
PathOut == <<"/", "x">>
PathD == <<"/", "m", "/", "d">>
PathMissing == <<"/", "m", "/", "q", "/", "f">>

\* index files on the local disk: IndexA lists /m/d/f, an empty line and /m/d/g;
\* IndexB lists /m/d/g and /m/q/f, whose directory does not exist; IndexC lists
\* /m/d/f; IndexNone is missing
IndexA == "/idx/a"
IndexB == "/idx/b"
IndexC == "/idx/c"
IndexNone == "/idx/none"

IndexLines(path) ==
    CASE path = IndexA -> <<PathF, <<>>, PathG>>
      [] path = IndexB -> <<PathG, <<"/", "m", "/", "q", "/", "f">>>>
      [] path = IndexC -> <<PathF>>
      [] OTHER -> <<>>

\* os.Stat(path) does not report IsNotExist
IndexExists(path) == path \in {IndexA, IndexB, IndexC}

\* ------------------------------------------------- the filesystem snapshot
\* FS (the ExtentClient): root(1) / d(2) / { f(3): two bytes, g(4): empty }

FsChildren(ino) ==
    CASE ino = 1 -> {<<<<"d">>, 2>>}
      [] ino = 2 -> {<<<<"f">>, 3>>, <<<<"g">>, 4>>}
      [] OTHER -> {}

FsHas(ino, name) == \E e \in FsChildren(ino) : e[1] = name

FsChild(ino, name) == (CHOOSE e \in FsChildren(ino) : e[1] = name)[2]

FsContent(ino) ==
    CASE ino = 3 -> <<104, 105>>
      [] OTHER -> <<>>

\* ------------------------------------------------------------ string tools

\* strings.HasPrefix
HasPrefix(s, p) == Len(s) >= Len(p) /\ SubSeq(s, 1, Len(p)) = p

\* first index at which p occurs in s, 0 when it does not
IndexOf(s, p) ==
    LET hits == {i \in 1..(Len(s) - Len(p) + 1) : SubSeq(s, i, i + Len(p) - 1) = p}
    IN IF hits = {} THEN 0 ELSE CHOOSE i \in hits : \A j \in hits : i <= j

\* strings.Replace(s, p, "", 1): the first occurrence of p removed
RemoveFirst(s, p) ==
    LET i == IndexOf(s, p)
    IN IF i = 0 \/ Len(p) = 0 THEN s
       ELSE SubSeq(s, 1, i - 1) \o SubSeq(s, i + Len(p), Len(s))

\* strings.Split(s, "/"): the pieces between slashes, empty pieces included
RECURSIVE Split(_)
Split(s) ==
    LET i == IndexOf(s, <<"/">>)
    IN IF i = 0 THEN <<s>>
       ELSE <<SubSeq(s, 1, i - 1)>> \o Split(SubSeq(s, i + 1, Len(s)))

\* ------------------------------------------------------------------ state

VARIABLES
    isClosed,         \* PrefetchManager.isClosed
    closeC,           \* TRUE once close(closeC) has run
    closeLock,        \* the callers holding closeLock for reading
    closePc,          \* where Close is: open, locking, flagged, waiting, draining, returned
    indexInfoChan,    \* queue of IndexInfo pointers
    filePathChan,     \* queue of FileInfo pointers
    downloadChan,     \* queue of DownloadFileInfo
    wg,               \* PrefetchManager.wg: workers and janitor still running
    wpc,              \* each worker's position
    wloc,             \* each worker's locals
    jpc,              \* the janitor's position
    jloc,             \* the janitor's locals: the keys its Range has yet to visit
    tickDue,          \* the minute ticker has fired and the janitor has not yet served it
    indexFileInfoMap, \* index file path -> IndexInfo pointer
    objs,             \* the IndexInfo objects allocated so far
    files,            \* files[o]: the FileInfo objects LoadIndex parsed for object o
    dcacheMap,        \* parent inode -> IndexDentryInfo
    lookupDcache,     \* parent inode -> DentryCache, for absolute-path lookups
    dentryPuts,       \* every <<parent inode, name, inode>> ever put into a cache of dcacheMap
    now,              \* the clock, in minutes
    metrics,          \* PrefetchMetrics: appReadCount, totalReadCount
    readLog,          \* the calls of AddTotalReadCount and AddAppReadCount so far, and
                      \* what each one-second tick of the janitor has logged
    respWg,           \* each response writer's wait-group counter
    respOut,          \* the bytes each response writer has received
    respLog,          \* the records written to each response writer, as (path, data)
    nCalls,           \* public calls issued so far
    jobLog,           \* per download job: the calls made for it of wait-group Add and
                      \* Done, GetBlockBuf, PutBlockBuf, OpenStream (successful) and
                      \* CloseStream
    cpc,              \* each caller's position
    cloc,             \* each caller's locals
    lastRet           \* the public call that returned last, and what it returned

closeVars == <<isClosed, closeC, closePc>>
chanVars == <<indexInfoChan, filePathChan, downloadChan>>
workerVars == <<wg, wpc, wloc>>
janitorVars == <<jpc, jloc, tickDue>>
regVars == <<indexFileInfoMap, objs, files>>
cacheVars == <<dcacheMap, lookupDcache, dentryPuts>>
respVars == <<respWg, respOut, respLog, jobLog>>
callerVars == <<nCalls, cpc, cloc, lastRet>>
metricVars == <<metrics, readLog>>

vars == <<closeVars, closeLock, chanVars, workerVars, janitorVars, regVars, cacheVars, now,
          metricVars, respVars, callerVars>>

JobIds == 1..MaxJobs

NoLocals == [pc |-> "none"]

NoResult == [op |-> Nil, arg |-> 0, ret |-> Nil, put |-> Nil, closed |-> FALSE, seq |-> 0]

\* a FileInfo pointer: obj > 0 names the IndexInfo whose load parsed it and line its
\* place in that list; obj = 0 is a FileInfo built by PrefetchByPath (isAbs, inoID 0)
NoFile == [obj |-> 0, line |-> 0, path |-> <<>>, isAbs |-> FALSE]

\* the engine as NewPrefetchManager(ec, volName, mountPoint, prefetchThreads) leaves
\* it; a worker beyond prefetchThreads is never started ("none")
NewPrefetchManager(prefetchThreads) ==
    /\ isClosed = FALSE
    /\ closeC = FALSE
    /\ closeLock = {}
    /\ closePc = "open"
    /\ indexInfoChan = <<>>
    /\ filePathChan = <<>>
    /\ downloadChan = <<>>
    /\ wg = prefetchThreads + 1
    /\ wpc = [w \in Workers |-> IF w <= prefetchThreads THEN "idle" ELSE "none"]
    /\ wloc = [w \in Workers |-> NoLocals]
    /\ jpc = "idle"
    /\ jloc = {}
    /\ tickDue = FALSE
    /\ indexFileInfoMap = <<>>
    /\ objs = <<>>
    /\ files = <<>>
    /\ dcacheMap = <<>>
    /\ lookupDcache = <<>>
    /\ dentryPuts = {}
    /\ now = 0
    /\ metrics = [appReadCount |-> 0, totalReadCount |-> 0]
    /\ readLog = [total |-> 0, app |-> 0, ticks |-> <<>>]
    /\ respWg = [rw \in Writers |-> 0]
    /\ respOut = [rw \in Writers |-> <<>>]
    /\ respLog = [rw \in Writers |-> <<>>]
    /\ nCalls = 0
    /\ jobLog = [j \in JobIds |-> [add |-> 0, doneW |-> 0, doneC |-> 0,
                                    get |-> 0, put |-> 0, open |-> 0, close |-> 0]]
    /\ cpc = [c \in Callers |-> "idle"]
    /\ cloc = [c \in Callers |-> NoLocals]
    /\ lastRet = NoResult

\* ------------------------------------------------------- the enqueue protocol

\* closeLock.RLock(): Go's RWMutex admits no new reader while a writer waits
CanRLock == closePc # "locking"

\* fault variant of RetOf: PrefetchByIndex loses the error of its put as well
RetOfLosesRangeError(op, err) ==
    IF op \in {"DownloadData", "DownloadPath"} THEN "void"
    ELSE IF op = "PrefetchByIndex" THEN "nil"
    ELSE err

\* what the public operation hands back to its caller for the error of its put:
\* DownloadData and DownloadPath log it and return nothing
RetOf(op, err) == IF op \in {"DownloadData", "DownloadPath"} THEN "void" ELSE err

\* putIndexInfoChan / putFilePathChan / putDownloadChan up to the channel send:
\* RLock, the isClosed check and, for a download, resp.Wg.Add(1).  closedAtCall tells
\* whether isClosed was set when the public operation was called; after holds the
\* caller's locals when the operation goes on after a successful put
PutLocked(c, chan, item, op, closedAtCall, after) ==
    /\ CanRLock
    /\ IF isClosed
       THEN /\ lastRet' = [op |-> op, arg |-> 0, ret |-> RetOf(op, "Closed"),
                            put |-> "Closed", closed |-> closedAtCall,
                            seq |-> 1 - lastRet.seq]
            /\ cpc' = [cpc EXCEPT ![c] = "idle"]
            /\ cloc' = [cloc EXCEPT ![c] = NoLocals]
            /\ UNCHANGED <<closeLock, respWg, jobLog>>
       ELSE /\ closeLock' = closeLock \cup {c}
            /\ cpc' = [cpc EXCEPT ![c] = "send"]
            /\ cloc' = [cloc EXCEPT ![c] = [pc |-> "send", chan |-> chan, item |-> item,
                                            op |-> op, after |-> after]]
            /\ UNCHANGED lastRet
            /\ IF chan = "download"
               THEN /\ respWg' = [respWg EXCEPT ![item.resp] = @ + 1]
                    /\ jobLog' = [jobLog EXCEPT ![item.id].add = @ + 1]
               ELSE UNCHANGED <<respWg, jobLog>>

\* the channel send of a put, which blocks while the channel is full, then RUnlock
PutSend(c) ==
    /\ cpc[c] = "send"
    /\ \/ /\ cloc[c].chan = "download"
          /\ Len(downloadChan) < ChanCap
          /\ downloadChan' = Append(downloadChan, cloc[c].item)
          /\ UNCHANGED <<indexInfoChan, filePathChan>>
       \/ /\ cloc[c].chan = "path"
          /\ Len(filePathChan) < ChanCap
          /\ filePathChan' = Append(filePathChan, cloc[c].item)
          /\ UNCHANGED <<indexInfoChan, downloadChan>>
       \/ /\ cloc[c].chan = "index"
          /\ Len(indexInfoChan) < ChanCap
          /\ indexInfoChan' = Append(indexInfoChan, cloc[c].item)
          /\ UNCHANGED <<filePathChan, downloadChan>>
    /\ closeLock' = closeLock \ {c}
    /\ IF cloc[c].after = NoLocals
       THEN /\ cpc' = [cpc EXCEPT ![c] = "idle"]
            /\ cloc' = [cloc EXCEPT ![c] = NoLocals]
            /\ lastRet' = [op |-> cloc[c].op, arg |-> 0, ret |-> RetOf(cloc[c].op, "nil"),
                           put |-> "nil", closed |-> FALSE, seq |-> 1 - lastRet.seq]
       ELSE /\ cpc' = [cpc EXCEPT ![c] = cloc[c].after.pc]
            /\ cloc' = [cloc EXCEPT ![c] = cloc[c].after]
            /\ UNCHANGED lastRet
    /\ UNCHANGED <<closeVars, workerVars, janitorVars, regVars, cacheVars, now, metricVars, respVars, nCalls>>

\* DownloadPath(filePath, respData)
DownloadPath(c, p, rw) ==
    /\ cpc[c] = "idle"
    /\ nCalls < MaxJobs
    /\ nCalls' = nCalls + 1
    /\ PutLocked(c, "download",
                 [id |-> nCalls + 1, absPath |-> p, hasInfo |-> FALSE, fileInfo |-> NoFile,
                  resp |-> rw], "DownloadPath", isClosed, NoLocals)
    /\ UNCHANGED <<closeVars, chanVars, workerVars, janitorVars, regVars, cacheVars, now, metricVars, respOut, respLog>>

\* PrefetchByPath(filepath)
PrefetchPath(c, p, maxCalls) ==
    /\ cpc[c] = "idle"
    /\ nCalls < maxCalls
    /\ nCalls' = nCalls + 1
    /\ PutLocked(c, "path", [obj |-> 0, line |-> 0, path |-> p, isAbs |-> TRUE],
                 "PrefetchByPath", isClosed, NoLocals)
    /\ UNCHANGED <<closeVars, chanVars, workerVars, janitorVars, regVars, cacheVars, now, metricVars, respOut, respLog>>

\* PrefetchByPath with the model's cap on the calls of one run
PrefetchByPath(c, p) == PrefetchPath(c, p, MaxJobs)

\* the same with room for a download, a full path queue and one more call
PrefetchByPathLive(c, p) == PrefetchPath(c, p, MaxLiveCalls)

\* ----------------------------------------------------------------------- Close

\* Close() calls closeLock.Lock() and waits for the readers to leave
CloseLock ==
    /\ closePc = "open"
    /\ closePc' = "locking"
    /\ UNCHANGED <<isClosed, closeC, closeLock, chanVars, workerVars, janitorVars, regVars,
                   cacheVars, now, metricVars, respVars, callerVars>>

\* fault variant of CloseSetFlag: isClosed is set without closeLock, while callers
\* still hold it for reading
CloseSetFlagNoLock ==
    /\ closePc = "locking"
    /\ isClosed' = TRUE
    /\ closePc' = "flagged"
    /\ UNCHANGED <<closeC, closeLock, chanVars, workerVars, janitorVars, regVars, cacheVars, now, metricVars,
                   respVars, callerVars>>

\* Lock acquired: isClosed = true; Unlock
CloseSetFlag ==
    /\ closePc = "locking"
    /\ closeLock = {}
    /\ isClosed' = TRUE
    /\ closePc' = "flagged"
    /\ UNCHANGED <<closeC, closeLock, chanVars, workerVars, janitorVars, regVars, cacheVars, now, metricVars,
                   respVars, callerVars>>

\* close(pManager.closeC)
CloseSignal ==
    /\ closePc = "flagged"
    /\ closeC' = TRUE
    /\ closePc' = "waiting"
    /\ UNCHANGED <<isClosed, closeLock, chanVars, workerVars, janitorVars, regVars, cacheVars, now, metricVars,
                   respVars, callerVars>>

\* fault variant of CloseWait: Close goes on to the drain without wg.Wait()
CloseWaitNoWait ==
    /\ closePc = "waiting"
    /\ closePc' = "draining"
    /\ UNCHANGED <<isClosed, closeC, closeLock, chanVars, workerVars, janitorVars, regVars,
                   cacheVars, now, metricVars, respVars, callerVars>>


\* pManager.wg.Wait() returns once every worker and the janitor have left
CloseWait ==
    /\ closePc = "waiting"
    /\ wg = 0
    /\ closePc' = "draining"
    /\ UNCHANGED <<isClosed, closeC, closeLock, chanVars, workerVars, janitorVars, regVars,
                   cacheVars, now, metricVars, respVars, callerVars>>

\* fault variant of clearDownloadChan: the drained job is dropped, resp.Wg.Done()
\* is not called for it
clearDownloadChanNoDone ==
    /\ closePc = "draining"
    /\ IF downloadChan # <<>>
       THEN /\ downloadChan' = Tail(downloadChan)
            /\ UNCHANGED closePc
       ELSE /\ closePc' = "returned"
            /\ UNCHANGED downloadChan
    /\ UNCHANGED <<isClosed, closeC, closeLock, indexInfoChan, filePathChan, workerVars,
                   janitorVars, regVars, cacheVars, now, metricVars, respVars, callerVars>>

\* fault variant of clearDownloadChan: the drained job is answered with an empty
\* record before resp.Wg.Done()
clearDownloadChanWrites ==
    /\ closePc = "draining"
    /\ IF downloadChan # <<>>
       THEN /\ downloadChan' = Tail(downloadChan)
            /\ respOut' = [respOut EXCEPT ![Head(downloadChan).resp] = @ \o <<0>>]
            /\ respLog' = [respLog EXCEPT ![Head(downloadChan).resp] =
                              Append(@, <<Head(downloadChan).absPath, <<>> >>)]
            /\ respWg' = [respWg EXCEPT ![Head(downloadChan).resp] = @ - 1]
            /\ jobLog' = [jobLog EXCEPT ![Head(downloadChan).id].doneC = @ + 1]
            /\ UNCHANGED closePc
       ELSE /\ closePc' = "returned"
            /\ UNCHANGED <<downloadChan, respVars>>
    /\ UNCHANGED <<isClosed, closeC, closeLock, indexInfoChan, filePathChan, workerVars,
                   janitorVars, regVars, cacheVars, now, metricVars, callerVars>>


\* clearDownloadChan: one pass of its loop
clearDownloadChan ==
    /\ closePc = "draining"
    /\ IF downloadChan # <<>>
       THEN /\ downloadChan' = Tail(downloadChan)
            /\ respWg' = [respWg EXCEPT ![Head(downloadChan).resp] = @ - 1]
            /\ jobLog' = [jobLog EXCEPT ![Head(downloadChan).id].doneC = @ + 1]
            /\ UNCHANGED closePc
       ELSE /\ closePc' = "returned"
            /\ UNCHANGED <<downloadChan, respWg, jobLog>>
    /\ UNCHANGED <<isClosed, closeC, closeLock, indexInfoChan, filePathChan, workerVars,
                   janitorVars, regVars, cacheVars, now, metricVars, respOut, respLog, callerVars>>

\* ---------------------------------------------------------------- DentryCache
\* cache.DentryCache (client/cache): name -> inode with an absolute expiration

\* DefaultIndexDentryExpiration, 60 minutes in the source, scaled to the model's clock
DefaultIndexDentryExpiration == 2

NewDentryCache(valid) == [cache |-> <<>>, expiration |-> now + valid]

DcHas(dc, name) == name \in DOMAIN dc.cache

DcGet(dc, name) == dc.cache[name]

DcPut(dc, name, ino) == [dc EXCEPT !.cache = (name :> ino) @@ @]

IsExpired(dc) == now > dc.expiration

ResetExpiration(dc, valid) == [dc EXCEPT !.expiration = now + valid]

\* ------------------------------------------------------------------- framing

ByteOf(ch) ==
    CASE ch = "/" -> 47
      [] ch = "d" -> 100
      [] ch = "f" -> 102
      [] ch = "g" -> 103
      [] ch = "m" -> 109
      [] ch = "x" -> 120
      [] OTHER -> 63

Bytes(str) == [i \in 1..Len(str) |-> ByteOf(str[i])]

\* v >> (8 * k)
RECURSIVE ShiftRightBytes(_, _)
ShiftRightBytes(v, k) == IF k = 0 THEN v ELSE ShiftRightBytes(v \div 256, k - 1)

\* fault variant of PutUint64: the bytes in little-endian order
PutUint64LittleEndian(v) == [i \in 1..8 |-> ShiftRightBytes(v, i - 1) % 256]

\* binary.BigEndian.PutUint64: b[0] = byte(v >> 56), ..., b[7] = byte(v)
PutUint64(v) == [i \in 1..8 |-> ShiftRightBytes(v, 8 - i) % 256]

\* the record ReadData lays out in respData[:dataLen]
RespData(filePath, content, readSize) ==
    PutUint64(Len(filePath)) \o Bytes(filePath)
        \o PutUint64(readSize) \o SubSeq(content, 1, readSize)

\* BatchDownloadRespWriter.write(data), for the record of (path, data)
write(resp, path, data, record) ==
    /\ respOut' = [respOut EXCEPT ![resp] = @ \o record]
    /\ respLog' = [respLog EXCEPT ![resp] = Append(@, <<path, data>>)]

\* ReadData's deferred function for a read that gave readSize > 0 bytes of content,
\* as far as the response writer sees it: the record laid out and written
ReadDataWrite(rw, filePath, content, readSize) ==
    /\ Len(respLog[rw]) < MaxRecords
    /\ readSize > 0
    /\ readSize <= Len(content)
    /\ write(rw, Bytes(filePath), SubSeq(content, 1, readSize),
             RespData(filePath, content, readSize))
    /\ UNCHANGED <<closeVars, closeLock, chanVars, workerVars, janitorVars, regVars, cacheVars,
                   now, metricVars, respWg, jobLog, callerVars>>

\* ------------------------------------------- the response writer's mutex
\* BatchDownloadRespWriter embeds sync.Mutex: it is held by the worker that is between
\* resp.Lock() and resp.Unlock() of write

\* worker w is inside the critical section of resp's write
InWrite(w, resp) ==
    wpc[w] \in {"respWrite", "respFlush", "respUnlock"} /\ wloc[w].resp = resp

\* ReadData's deferred function up to the call of dInfo.resp.write, for a read that
\* gave readSize > 0 bytes of content: the record is laid out in respData
ReadDataRespond(w, rw, filePath, content, readSize) ==
    /\ wpc[w] = "idle"
    /\ Len(respLog[rw]) + Cardinality({x \in Workers : wpc[x] = "respLock"}) < MaxRecords
    /\ readSize > 0
    /\ readSize <= Len(content)
    /\ wpc' = [wpc EXCEPT ![w] = "respLock"]
    /\ wloc' = [wloc EXCEPT ![w] =
                  [pc |-> "respLock", resp |-> rw, path |-> Bytes(filePath),
                   data |-> SubSeq(content, 1, readSize),
                   record |-> RespData(filePath, content, readSize), sent |-> 0]]
    /\ UNCHANGED <<closeVars, closeLock, chanVars, wg, janitorVars, regVars, cacheVars, now, metricVars,
                   respVars, callerVars>>

\* fault variant of RespLock: write goes on without the writer's mutex
RespLockNoMutex(w) ==
    /\ wpc[w] = "respLock"
    /\ wpc' = [wpc EXCEPT ![w] = "respWrite"]
    /\ wloc' = [wloc EXCEPT ![w].pc = "respWrite"]
    /\ respLog' = [respLog EXCEPT ![wloc[w].resp] = Append(@, <<wloc[w].path, wloc[w].data>>)]
    /\ UNCHANGED <<closeVars, closeLock, chanVars, wg, janitorVars, regVars, cacheVars, now, metricVars,
                   respWg, respOut, jobLog, callerVars>>

\* write: resp.Lock(), which waits while another worker holds the mutex
RespLock(w) ==
    /\ wpc[w] = "respLock"
    /\ \A x \in Workers : ~InWrite(x, wloc[w].resp)
    /\ wpc' = [wpc EXCEPT ![w] = "respWrite"]
    /\ wloc' = [wloc EXCEPT ![w].pc = "respWrite"]
    /\ respLog' = [respLog EXCEPT ![wloc[w].resp] = Append(@, <<wloc[w].path, wloc[w].data>>)]
    /\ UNCHANGED <<closeVars, closeLock, chanVars, wg, janitorVars, regVars, cacheVars, now, metricVars,
                   respWg, respOut, jobLog, callerVars>>

\* write: resp.Writer.Write(data), which hands the bytes to the stream in one piece
\* or in several
RespWrite(w) ==
    /\ wpc[w] = "respWrite"
    /\ LET l == wloc[w]
       IN \E n \in 1..(Len(l.record) - l.sent) :
            /\ respOut' = [respOut EXCEPT ![l.resp] =
                             @ \o SubSeq(l.record, l.sent + 1, l.sent + n)]
            /\ wloc' = [wloc EXCEPT ![w].sent = l.sent + n,
                                    ![w].pc = IF l.sent + n = Len(l.record) THEN "respFlush"
                                              ELSE "respWrite"]
    /\ wpc' = [wpc EXCEPT ![w] = wloc'[w].pc]
    /\ UNCHANGED <<closeVars, closeLock, chanVars, wg, janitorVars, regVars, cacheVars, now, metricVars,
                   respWg, respLog, jobLog, callerVars>>

\* write: resp.Writer.(http.Flusher).Flush()
RespFlush(w) ==
    /\ wpc[w] = "respFlush"
    /\ wpc' = [wpc EXCEPT ![w] = "respUnlock"]
    /\ wloc' = [wloc EXCEPT ![w].pc = "respUnlock"]
    /\ UNCHANGED <<closeVars, closeLock, chanVars, wg, janitorVars, regVars, cacheVars, now, metricVars,
                   respVars, callerVars>>

\* write: resp.Unlock(); the deferred function releases its buffers
RespUnlock(w) ==
    /\ wpc[w] = "respUnlock"
    /\ wpc' = [wpc EXCEPT ![w] = "idle"]
    /\ wloc' = [wloc EXCEPT ![w] = NoLocals]
    /\ UNCHANGED <<closeVars, closeLock, chanVars, wg, janitorVars, regVars, cacheVars, now, metricVars,
                   respVars, callerVars>>

\* ------------------------------------------------------------------- workers

\* inoID of the FileInfo a pointer names
InoID(fi) == IF fi.obj = 0 THEN 0 ELSE files[fi.obj][fi.line].inoID

\* ReadData up to the first FS call: the inode comes from the FileInfo or from
\* LookupPathByCache, whose checks of absPath come before its loop
ReadDataEntry(d) ==
    IF d.hasInfo /\ InoID(d.fileInfo) # 0
    THEN [pc |-> "open", job |-> d, ino |-> InoID(d.fileInfo)]
    ELSE IF ~HasPrefix(d.absPath, mountPoint)
    THEN [pc |-> "fail", job |-> d, err |-> "not cfs path"]
    ELSE LET subDir == RemoveFirst(d.absPath, mountPoint)
         IN IF subDir = <<>> \/ subDir = <<"/">>
            THEN [pc |-> "fail", job |-> d, err |-> "not cfs file"]
            ELSE [pc |-> "lookup", job |-> d, ino |-> RootIno, dirs |-> Split(subDir),
                  index |-> 1]

\* case dInfo := <-pManager.downloadChan
WorkerTakeDownload(w) ==
    /\ wpc[w] = "idle"
    /\ downloadChan # <<>>
    /\ downloadChan' = Tail(downloadChan)
    /\ wloc' = [wloc EXCEPT ![w] = ReadDataEntry(Head(downloadChan))]
    /\ wpc' = [wpc EXCEPT ![w] = wloc'[w].pc]
    /\ UNCHANGED <<closeVars, closeLock, indexInfoChan, filePathChan, wg, janitorVars, regVars,
                   cacheVars, now, metricVars, respVars, callerVars>>

\* fault variant of LookupAdvance: the inode found for the last component is dropped
\* and the inode of its parent returned
LookupAdvanceKeepsParent(l, ino) ==
    IF l.index = Len(l.dirs)
    THEN [pc |-> "open", job |-> l.job, ino |-> l.ino]
    ELSE [l EXCEPT !.ino = ino, !.index = @ + 1]

\* where LookupPathByCache goes after the component at l.index
LookupAdvance(l, ino) ==
    IF l.index = Len(l.dirs)
    THEN [pc |-> "open", job |-> l.job, ino |-> ino]
    ELSE [l EXCEPT !.ino = ino, !.index = @ + 1]

\* one pass of LookupPathByCache's loop over dirs.  ok = FALSE: ec.lookup fails; the
\* error is "lookup" when the name is not there and "fs" when it is
LookupPathByCache(w) ==
    /\ wpc[w] = "lookup"
    /\ LET l == wloc[w]
           dir == l.dirs[l.index]
           loaded == l.ino \in DOMAIN lookupDcache
           stored == IF loaded THEN lookupDcache
                     ELSE (l.ino :> NewDentryCache(DefaultIndexDentryExpiration)) @@ lookupDcache
       IN IF dir = <<"/">> \/ dir = <<>>
          THEN /\ wloc' = [wloc EXCEPT ![w] = LookupAdvance(l, l.ino)]
               /\ UNCHANGED lookupDcache
          ELSE IF loaded /\ DcHas(lookupDcache[l.ino], dir)
          THEN /\ wloc' = [wloc EXCEPT ![w] = LookupAdvance(l, DcGet(lookupDcache[l.ino], dir))]
               /\ UNCHANGED lookupDcache
          ELSE \E ok \in BOOLEAN :
                 IF ok /\ FsHas(l.ino, dir)
                 THEN LET child == FsChild(l.ino, dir)
                      IN /\ lookupDcache' =
                              IF l.index # Len(l.dirs)
                              THEN [stored EXCEPT ![l.ino] = DcPut(@, dir, child)]
                              ELSE stored
                         /\ wloc' = [wloc EXCEPT ![w] = LookupAdvance(l, child)]
                 ELSE /\ lookupDcache' = stored
                      /\ wloc' = [wloc EXCEPT ![w] =
                                    [pc |-> "fail", job |-> l.job,
                                     err |-> IF FsHas(l.ino, dir) THEN "fs" ELSE "lookup"]]
    /\ wpc' = [wpc EXCEPT ![w] = wloc'[w].pc]
    /\ UNCHANGED <<closeVars, closeLock, chanVars, wg, janitorVars, regVars, dcacheMap, dentryPuts, now, metricVars,
                   respVars, callerVars>>

\* resp.Wg.Done() of ReadData's deferred function
WgDone(d) ==
    /\ respWg' = [respWg EXCEPT ![d.resp] = @ - 1]
    /\ jobLog' = [jobLog EXCEPT ![d.id].doneW = @ + 1]

\* fault variant of ReadDataFail: the early return leaves without resp.Wg.Done()
ReadDataFailNoDone(w) ==
    /\ wpc[w] = "fail"
    /\ wpc' = [wpc EXCEPT ![w] = "idle"]
    /\ wloc' = [wloc EXCEPT ![w] = NoLocals]
    /\ UNCHANGED <<closeVars, closeLock, chanVars, wg, janitorVars, regVars, cacheVars, now, metricVars,
                   respVars, callerVars>>

\* fault variant of ReadDataFail: the deferred function skips its test of err and
\* readSize and writes a record with no data
ReadDataFailWrites(w) ==
    /\ wpc[w] = "fail"
    /\ write(wloc[w].job.resp, Bytes(wloc[w].job.absPath), <<>>,
             RespData(wloc[w].job.absPath, <<>>, 0))
    /\ WgDone(wloc[w].job)
    /\ wpc' = [wpc EXCEPT ![w] = "idle"]
    /\ wloc' = [wloc EXCEPT ![w] = NoLocals]
    /\ UNCHANGED <<closeVars, closeLock, chanVars, wg, janitorVars, regVars, cacheVars, now, metricVars,
                   callerVars>>

\* ReadData has returned with an error, or with no error and readSize = 0: the
\* deferred function writes nothing and calls resp.Wg.Done(); the worker logs the
\* error and selects again
ReadDataFail(w) ==
    /\ wpc[w] = "fail"
    /\ WgDone(wloc[w].job)
    /\ wpc' = [wpc EXCEPT ![w] = "idle"]
    /\ wloc' = [wloc EXCEPT ![w] = NoLocals]
    /\ UNCHANGED <<closeVars, closeLock, chanVars, wg, janitorVars, regVars, cacheVars, now, metricVars,
                   respOut, respLog, callerVars>>

\* fault variant of ReadDataCalls: CloseStream is deferred before the error of
\* OpenStream is looked at
ReadDataCallsCloseAlways(out, readSize) ==
    CASE out = "openErr" -> [get |-> 0, put |-> 0, open |-> 0, close |-> 1]
      [] out = "sizeInvalid" -> [get |-> 0, put |-> 0, open |-> 1, close |-> 1]
      [] out = "readErr" -> [get |-> 1, put |-> 0, open |-> 1, close |-> 1]
      [] out = "ok" /\ readSize = 0 -> [get |-> 1, put |-> 0, open |-> 1, close |-> 1]
      [] OTHER -> [get |-> 2, put |-> 2, open |-> 1, close |-> 1]

\* the calls ReadData and its deferred functions make from OpenStream on, by outcome:
\* GetBlockBuf for content (line 673) and respData (line 635), PutBlockBuf for both
\* (lines 645 to 648) only when a record is written, OpenStream that succeeded, and
\* the CloseStream deferred after it
ReadDataCalls(out, readSize) ==
    CASE out = "openErr" -> [get |-> 0, put |-> 0, open |-> 0, close |-> 0]
      [] out = "sizeInvalid" -> [get |-> 0, put |-> 0, open |-> 1, close |-> 1]
      [] out = "readErr" -> [get |-> 1, put |-> 0, open |-> 1, close |-> 1]
      [] out = "ok" /\ readSize = 0 -> [get |-> 1, put |-> 0, open |-> 1, close |-> 1]
      [] OTHER -> [get |-> 2, put |-> 2, open |-> 1, close |-> 1]

\* jobLog with the calls made for job d added
LogCalls(log, d, calls) ==
    [log EXCEPT ![d.id].get = @ + calls.get, ![d.id].put = @ + calls.put,
                ![d.id].open = @ + calls.open, ![d.id].close = @ + calls.close]

\* what ReadData returns for the outcome of OpenStream, FileSize and Read
ReadDataErr(out, readSize) ==
    CASE out = "openErr" -> "open stream"
      [] out = "sizeInvalid" -> "file size"
      [] out = "readErr" -> "read"
      [] OTHER -> "nil"

\* ReadData from OpenStream on: OpenStream, FileSize, Read and the deferred
\* CloseStream; for a read of readSize > 0 bytes with no error also the deferred write
\* of the record and resp.Wg.Done().  FileSize is invalid or 0 for an empty file
ReadData(w) ==
    /\ wpc[w] = "open"
    /\ LET d == wloc[w].job
           content == FsContent(wloc[w].ino)
       IN \E out \in {"openErr", "sizeInvalid", "readErr", "ok"}, readSize \in 0..Len(content) :
            /\ out = "readErr" \/ out = "ok" => Len(content) > 0
            /\ out = "openErr" \/ out = "sizeInvalid" => readSize = 0
            /\ IF out = "ok" /\ readSize > 0
               THEN /\ write(d.resp, Bytes(d.absPath), SubSeq(content, 1, readSize),
                             RespData(d.absPath, content, readSize))
                    /\ respWg' = [respWg EXCEPT ![d.resp] = @ - 1]
                    /\ jobLog' = LogCalls([jobLog EXCEPT ![d.id].doneW = @ + 1], d,
                                          ReadDataCalls(out, readSize))
                    /\ wloc' = [wloc EXCEPT ![w] = NoLocals]
               ELSE /\ wloc' = [wloc EXCEPT ![w] =
                                  [pc |-> "fail", job |-> d, err |-> ReadDataErr(out, readSize)]]
                    /\ jobLog' = LogCalls(jobLog, d, ReadDataCalls(out, readSize))
                    /\ UNCHANGED <<respWg, respOut, respLog>>
    /\ wpc' = [wpc EXCEPT ![w] = IF wloc'[w] = NoLocals THEN "idle" ELSE "fail"]
    /\ UNCHANGED <<closeVars, closeLock, chanVars, wg, janitorVars, regVars, cacheVars, now, metricVars,
                   callerVars>>

\* OpenStream (at = 0), FileSize (1) or Read (2) panics in ReadData: the deferred
\* functions run (CloseStream if OpenStream had returned, nothing is written,
\* resp.Wg.Done()), the worker's recover catches it and the worker returns
ReadDataPanic(w) ==
    /\ wpc[w] = "open"
    /\ \E at \in 0..2 :
         LET d == wloc[w].job
             calls == [get |-> IF at = 2 THEN 1 ELSE 0, put |-> 0,
                       open |-> IF at = 0 THEN 0 ELSE 1, close |-> IF at = 0 THEN 0 ELSE 1]
         IN /\ at = 2 => FsContent(wloc[w].ino) # <<>>
            /\ respWg' = [respWg EXCEPT ![d.resp] = @ - 1]
            /\ jobLog' = LogCalls([jobLog EXCEPT ![d.id].doneW = @ + 1], d, calls)
    /\ wpc' = [wpc EXCEPT ![w] = "exited"]
    /\ wloc' = [wloc EXCEPT ![w] = NoLocals]
    /\ wg' = wg - 1
    /\ UNCHANGED <<closeVars, closeLock, chanVars, janitorVars, regVars, cacheVars, now, metricVars,
                   respOut, respLog, callerVars>>

\* path.Join(mountPoint, p) for a p that is empty or starts with "/"
JoinMount(p) == mountPoint \o p

\* case fileInfo := <-pManager.filePathChan
WorkerTakePath(w) ==
    /\ wpc[w] = "idle"
    /\ filePathChan # <<>>
    /\ filePathChan' = Tail(filePathChan)
    /\ LET fileInfo == Head(filePathChan)
       IN wloc' = [wloc EXCEPT ![w] =
                     [pc |-> "prefetch",
                      absFilepath |-> IF fileInfo.isAbs THEN fileInfo.path
                                      ELSE JoinMount(fileInfo.path)]]
    /\ wpc' = [wpc EXCEPT ![w] = "prefetch"]
    /\ UNCHANGED <<closeVars, closeLock, indexInfoChan, downloadChan, wg, janitorVars, regVars,
                   cacheVars, now, metricVars, respVars, callerVars>>

\* OsReadFile reads the file through, or fails; either way the worker loops
OsReadFile(w) ==
    /\ wpc[w] = "prefetch"
    /\ wpc' = [wpc EXCEPT ![w] = "idle"]
    /\ wloc' = [wloc EXCEPT ![w] = NoLocals]
    /\ UNCHANGED <<closeVars, closeLock, chanVars, wg, janitorVars, regVars, cacheVars, now, metricVars,
                   respVars, callerVars>>

\* case <-pManager.closeC in backGroundPrefetchWorker; the deferred wg.Done()
WorkerExit(w) ==
    /\ wpc[w] = "idle"
    /\ closeC
    /\ wpc' = [wpc EXCEPT ![w] = "exited"]
    /\ wg' = wg - 1
    /\ UNCHANGED <<closeVars, closeLock, chanVars, wloc, janitorVars, regVars, cacheVars, now, metricVars,
                   respVars, callerVars>>

\* case <-pManager.closeC in cleanExpiredIndexInfo; the deferred wg.Done()
JanitorExit ==
    /\ jpc = "idle"
    /\ closeC
    /\ jpc' = "exited"
    /\ wg' = wg - 1
    /\ UNCHANGED <<closeVars, closeLock, chanVars, wpc, wloc, jloc, tickDue, regVars,
                   cacheVars, now, metricVars, respVars, callerVars>>

\* ------------------------------------------------------------ read counters

\* hitPercent of the one-second tick, in whole percent: 100 with no read; the
\* difference totalRead-appRead is a uint64 and wraps when appRead is the larger,
\* which gives a percentage beyond any real one (WrappedPercent stands for it)
WrappedPercent == 101

HitPercent(totalRead, appRead) ==
    IF totalRead = 0 THEN 100
    ELSE IF appRead <= totalRead THEN ((totalRead - appRead) * 100) \div totalRead
    ELSE WrappedPercent

\* fault variant of SwapTotalReadCount: the counter is read and not reset
LoadTotalReadCount(m) == m

\* atomic.SwapUint64(&pManager.metrics.totalReadCount, 0): the counter after it
SwapTotalReadCount(m) == [m EXCEPT !.totalReadCount = 0]

\* AddTotalReadCount: atomic.AddUint64(&pManager.metrics.totalReadCount, 1)
AddTotalReadCount ==
    /\ readLog.total < MaxReads
    /\ metrics' = [metrics EXCEPT !.totalReadCount = @ + 1]
    /\ readLog' = [readLog EXCEPT !.total = @ + 1]
    /\ UNCHANGED <<closeVars, closeLock, chanVars, workerVars, janitorVars, regVars,
                   cacheVars, now, respVars, callerVars>>

\* AddAppReadCount: atomic.AddUint64(&pManager.metrics.appReadCount, 1)
AddAppReadCount ==
    /\ readLog.app < MaxReads
    /\ metrics' = [metrics EXCEPT !.appReadCount = @ + 1]
    /\ readLog' = [readLog EXCEPT !.app = @ + 1]
    /\ UNCHANGED <<closeVars, closeLock, chanVars, workerVars, janitorVars, regVars,
                   cacheVars, now, respVars, callerVars>>

\* case <-t1.C in cleanExpiredIndexInfo: totalRead := SwapUint64(&totalReadCount, 0)
SecondTickSwapTotal ==
    /\ jpc = "idle"
    /\ Len(readLog.ticks) < MaxSeconds
    /\ jpc' = "second"
    /\ jloc' = metrics.totalReadCount
    /\ metrics' = SwapTotalReadCount(metrics)
    /\ UNCHANGED <<closeVars, closeLock, chanVars, workerVars, tickDue, regVars, cacheVars,
                   now, readLog, respVars, callerVars>>

\* appRead := SwapUint64(&appReadCount, 0); hitPercent; log.LogInfof; the janitor
\* selects again
SecondTickSwapApp ==
    /\ jpc = "second"
    /\ jpc' = "idle"
    /\ jloc' = {}
    /\ metrics' = [metrics EXCEPT !.appReadCount = 0]
    /\ readLog' = [readLog EXCEPT !.ticks =
                     Append(@, [totalRead |-> jloc, appRead |-> metrics.appReadCount,
                                hitPercent |-> HitPercent(jloc, metrics.appReadCount)])]
    /\ UNCHANGED <<closeVars, closeLock, chanVars, workerVars, tickDue, regVars, cacheVars,
                   now, respVars, callerVars>>


\* ------------------------------------------------------------ Index Registry

\* sync.Map Delete
MapDelete(m, k) == [x \in DOMAIN m \ {k} |-> m[x]]

\* sync.Map Store
MapStore(m, k, v) == (k :> v) @@ m

Return(c, op, arg, ret, closedAtCall) ==
    /\ lastRet' = [op |-> op, arg |-> arg, ret |-> ret, put |-> "none",
                   closed |-> closedAtCall, seq |-> 1 - lastRet.seq]
    /\ cpc' = [cpc EXCEPT ![c] = "idle"]
    /\ cloc' = [cloc EXCEPT ![c] = NoLocals]

\* fault variant of NewIndexInfo: the IndexInfo is built with another path than the
\* one it is stored under
NewIndexInfoOtherPath(datasetCnt, path, ttlMinute) ==
    [path |-> IndexA, datasetCnt |-> datasetCnt,
     ttl |-> IF ttlMinute > 0 THEN now + ttlMinute ELSE 0,
     validMinute |-> ttlMinute,
     fileInfoMap |-> [list |-> 0, len |-> 0],
     replaces |-> 0]

\* AddIndexFilepath: indexInfo := &IndexInfo{path, datasetCnt} and its ttl.  replaces is
\* not a field of IndexInfo: it records the expired IndexInfo this one was stored over
NewIndexInfo(datasetCnt, path, ttlMinute) ==
    [path |-> path, datasetCnt |-> datasetCnt,
     ttl |-> IF ttlMinute > 0 THEN now + ttlMinute ELSE 0,
     validMinute |-> ttlMinute,
     fileInfoMap |-> [list |-> 0, len |-> 0],
     replaces |-> 0]

\* AddIndexFilepath up to and including indexFileInfoMap.LoadOrStore
AddIndex(c, datasetCnt, path, ttlMinute, maxInfos) ==
    /\ cpc[c] = "idle"
    /\ Len(objs) < maxInfos
    /\ LET new == Len(objs) + 1
           loaded == path \in DOMAIN indexFileInfoMap
       IN /\ objs' = Append(objs, NewIndexInfo(datasetCnt, path, ttlMinute))
          /\ files' = Append(files, <<>>)
          /\ indexFileInfoMap' = IF loaded THEN indexFileInfoMap
                                 ELSE MapStore(indexFileInfoMap, path, new)
          /\ cpc' = [cpc EXCEPT ![c] = IF loaded THEN "reset" ELSE "stat"]
          /\ cloc' = [cloc EXCEPT ![c] =
                        [pc |-> cpc'[c], path |-> path, ttlMinute |-> ttlMinute, new |-> new,
                         old |-> IF loaded THEN indexFileInfoMap[path] ELSE new,
                         closed |-> isClosed]]
    /\ UNCHANGED <<closeVars, closeLock, chanVars, workerVars, janitorVars, cacheVars, now, metricVars,
                   respVars, nCalls, lastRet>>

\* AddIndexFilepath with the model's cap on the IndexInfos ever allocated
AddIndexFilepath(c, datasetCnt, path, ttlMinute) ==
    AddIndex(c, datasetCnt, path, ttlMinute, MaxIndexInfos)

\* the same with room for two indexes and a refresh of one of them
AddIndexFilepathShared(c, datasetCnt, path, ttlMinute) ==
    AddIndex(c, datasetCnt, path, ttlMinute, MaxSharedIndexInfos)

\* fault variant of resetExistedIndexInfo: the refresh of an unexpired entry leaves
\* the dentry caches of the index as they are
resetExistedIndexInfoKeepsDcache(c) ==
    /\ cpc[c] = "reset"
    /\ LET l == cloc[c]
           old == objs[l.old]
       IN IF old.ttl > 0 /\ now > old.ttl
          THEN /\ indexFileInfoMap' = MapStore(indexFileInfoMap, l.path, l.new)
               /\ objs' = [objs EXCEPT ![l.new].replaces = l.old]
               /\ cpc' = [cpc EXCEPT ![c] = "stat"]
               /\ cloc' = [cloc EXCEPT ![c].pc = "stat"]
               /\ UNCHANGED <<dcacheMap, lastRet>>
          ELSE /\ objs' = [objs EXCEPT ![l.old].ttl =
                                          IF l.ttlMinute = 0 THEN 0 ELSE now + l.ttlMinute,
                                       ![l.old].validMinute = l.ttlMinute]
               /\ Return(c, "AddIndex", 0, "nil", l.closed)
               /\ UNCHANGED <<indexFileInfoMap, dcacheMap>>
    /\ UNCHANGED <<closeVars, closeLock, chanVars, workerVars, janitorVars, files, lookupDcache, dentryPuts,
                   now, metricVars,
                   respVars, nCalls>>

\* resetExistedIndexInfo(oldIndexInfo, newIndexInfo, ttlMinute)
resetExistedIndexInfo(c) ==
    /\ cpc[c] = "reset"
    /\ LET l == cloc[c]
           old == objs[l.old]
           dcacheValid == IF l.ttlMinute = 0 THEN DefaultIndexDentryExpiration
                          ELSE l.ttlMinute
       IN IF old.ttl > 0 /\ now > old.ttl
          THEN /\ indexFileInfoMap' = MapStore(indexFileInfoMap, l.path, l.new)
               /\ objs' = [objs EXCEPT ![l.new].replaces = l.old]
               /\ cpc' = [cpc EXCEPT ![c] = "stat"]
               /\ cloc' = [cloc EXCEPT ![c].pc = "stat"]
               /\ UNCHANGED <<dcacheMap, lastRet>>
          ELSE /\ objs' = [objs EXCEPT ![l.old].ttl =
                                          IF l.ttlMinute = 0 THEN 0 ELSE now + l.ttlMinute,
                                       ![l.old].validMinute = l.ttlMinute]
               /\ dcacheMap' = [k \in DOMAIN dcacheMap |->
                                  IF dcacheMap[k].path = old.path
                                  THEN [dcacheMap[k] EXCEPT
                                          !.dcache = ResetExpiration(@, dcacheValid)]
                                  ELSE dcacheMap[k]]
               /\ Return(c, "AddIndex", 0, "nil", l.closed)
               /\ UNCHANGED indexFileInfoMap
    /\ UNCHANGED <<closeVars, closeLock, chanVars, workerVars, janitorVars, files, lookupDcache, dentryPuts,
                   now, metricVars,
                   respVars, nCalls>>

\* fault variant of AddIndexStat: NotFound is returned with the candidate left in the
\* registry
AddIndexStatNoDelete(c) ==
    /\ cpc[c] = "stat"
    /\ IF ~IndexExists(cloc[c].path)
       THEN /\ Return(c, "AddIndex", 0, "NotFound", cloc[c].closed)
            /\ UNCHANGED <<indexFileInfoMap, closeLock, respWg, jobLog>>
       ELSE /\ PutLocked(c, "index", cloc[c].new, "AddIndex", cloc[c].closed, NoLocals)
            /\ UNCHANGED indexFileInfoMap
    /\ UNCHANGED <<closeVars, chanVars, workerVars, janitorVars, objs, files, cacheVars, now, metricVars,
                   respOut, respLog, nCalls>>

\* AddIndexFilepath from os.Stat on: NotFound drops the path from the registry,
\* otherwise putIndexInfoChan(indexInfo) up to its channel send
AddIndexStat(c) ==
    /\ cpc[c] = "stat"
    /\ IF ~IndexExists(cloc[c].path)
       THEN /\ indexFileInfoMap' = MapDelete(indexFileInfoMap, cloc[c].path)
            /\ Return(c, "AddIndex", 0, "NotFound", cloc[c].closed)
            /\ UNCHANGED <<closeLock, respWg, jobLog>>
       ELSE /\ PutLocked(c, "index", cloc[c].new, "AddIndex", cloc[c].closed, NoLocals)
            /\ UNCHANGED indexFileInfoMap
    /\ UNCHANGED <<closeVars, chanVars, workerVars, janitorVars, objs, files, cacheVars, now, metricVars,
                   respOut, respLog, nCalls>>

\* DownloadData(fileInfo, respData), for a fileInfo that GetBatchFileInfos can have
\* handed out: line number line of the parsed list obj, with a path on it
DownloadData(c, obj, line, rw) ==
    /\ cpc[c] = "idle"
    /\ nCalls < MaxJobs
    /\ obj <= Len(files)
    /\ line <= Len(files[obj])
    /\ files[obj][line].path # <<>>
    /\ nCalls' = nCalls + 1
    /\ LET fileInfo == [obj |-> obj, line |-> line, path |-> files[obj][line].path,
                        isAbs |-> FALSE]
       IN PutLocked(c, "download",
                    [id |-> nCalls + 1, absPath |-> JoinMount(fileInfo.path),
                     hasInfo |-> TRUE, fileInfo |-> fileInfo, resp |-> rw],
                    "DownloadData", isClosed, NoLocals)
    /\ UNCHANGED <<closeVars, chanVars, workerVars, janitorVars, regVars, cacheVars, now, metricVars,
                   respOut, respLog>>

\* PrefetchByIndex(datasetCnt, index): the Range over indexFileInfoMap begins
\* PrefetchByIndex with the comparison of datasetCnt dropped
DatasetMatchesAny(value, datasetCnt) == TRUE

\* PrefetchByIndex: the entry is skipped when indexInfo.datasetCnt != datasetCnt
DatasetMatches(value, datasetCnt) == value.datasetCnt = datasetCnt

\* no LoadIndex is under way and none is queued
NoLoadUnderWay ==
    /\ indexInfoChan = <<>>
    /\ \A w \in Workers : wpc[w] \notin {"parse", "scan", "store", "range", "resolve", "assign"}

\* PrefetchByIndex starts its Range over indexFileInfoMap. The fields sent and
\* quiet are history: the items this call has put so far, and whether no
\* LoadIndex was under way when the call started
PrefetchByIndex(c, datasetCnt, index) ==
    /\ cpc[c] = "idle"
    /\ nCalls < MaxJobs
    /\ nCalls' = nCalls + 1
    /\ cpc' = [cpc EXCEPT ![c] = "byIndex"]
    /\ cloc' = [cloc EXCEPT ![c] = [pc |-> "byIndex", keys |-> DOMAIN indexFileInfoMap,
                                    datasetCnt |-> datasetCnt, index |-> index,
                                    closed |-> isClosed,
                                    sent |-> <<>>, quiet |-> NoLoadUnderWay]]
    /\ UNCHANGED <<closeVars, closeLock, chanVars, workerVars, janitorVars, regVars, cacheVars,
                   now, metricVars, respVars, lastRet>>

\* PrefetchByIndex: the Range visits a key and puts the line's FileInfo on
\* filePathChan, or skips the entry; after the last key the operation returns err
PrefetchByIndexVisit(c) ==
    /\ cpc[c] = "byIndex"
    /\ LET l == cloc[c]
       IN IF l.keys = {}
          THEN /\ Return(c, "PrefetchByIndex", 0, "nil", l.closed)
               /\ UNCHANGED <<closeLock, respWg, jobLog>>
          ELSE \E key \in l.keys :
                 LET rest == [l EXCEPT !.keys = @ \ {key}]
                     value == objs[indexFileInfoMap[key]]
                     fileInfoMap == value.fileInfoMap
                     item == [obj |-> fileInfoMap.list, line |-> l.index + 1,
                              path |-> files[fileInfoMap.list][l.index + 1].path,
                              isAbs |-> FALSE]
                 IN IF \/ key \notin DOMAIN indexFileInfoMap
                       \/ ~DatasetMatches(value, l.datasetCnt)
                       \/ l.index >= fileInfoMap.len
                       \/ files[fileInfoMap.list][l.index + 1].path = <<>>
                    THEN /\ cloc' = [cloc EXCEPT ![c] = rest]
                         /\ UNCHANGED <<cpc, lastRet, closeLock, respWg, jobLog>>
                    ELSE PutLocked(c, "path", item, "PrefetchByIndex", l.closed,
                                   [rest EXCEPT !.sent = Append(@, item)])
    /\ UNCHANGED <<closeVars, chanVars, workerVars, janitorVars, regVars, cacheVars, now, metricVars,
                   respOut, respLog, nCalls>>

\* ---------------------------------------- GetBatchFileInfos, PrefetchInodeInfo

\* for _, indexArr := range batchArr { for _, index := range indexArr {: the place
\* <<b, i>> of the next index at or after place <<b, i>>, with b beyond batchArr when
\* there is none
RECURSIVE BatchSkip(_, _, _)
BatchSkip(batchArr, b, i) ==
    IF b > Len(batchArr) THEN <<b, 1>>
    ELSE IF i > Len(batchArr[b]) THEN BatchSkip(batchArr, b + 1, 1)
    ELSE <<b, i>>

\* the locals of GetBatchFileInfos and PrefetchInodeInfo when the Range for the
\* index at place <<b, i>> is over: the loops go to the next index and its Range
\* begins
BatchAdvance(l) ==
    LET pos == BatchSkip(l.batchArr, l.b, l.i + 1)
    IN [l EXCEPT !.b = pos[1], !.i = pos[2], !.keys = DOMAIN indexFileInfoMap]

\* GetBatchFileInfos(batchArr, datasetCnt): the loops reach the first index and its
\* Range over indexFileInfoMap begins.  quiet is history, as in PrefetchByIndex
GetBatchFileInfos(c, batchArr, datasetCnt) ==
    /\ cpc[c] = "idle"
    /\ nCalls < MaxJobs
    /\ nCalls' = nCalls + 1
    /\ cpc' = [cpc EXCEPT ![c] = "getBatch"]
    /\ LET pos == BatchSkip(batchArr, 1, 1)
       IN cloc' = [cloc EXCEPT ![c] = [pc |-> "getBatch", batchArr |-> batchArr,
                                       datasetCnt |-> datasetCnt, b |-> pos[1], i |-> pos[2],
                                       keys |-> DOMAIN indexFileInfoMap, infos |-> <<>>,
                                       closed |-> isClosed, quiet |-> NoLoadUnderWay]]
    /\ UNCHANGED <<closeVars, closeLock, chanVars, workerVars, janitorVars, regVars, cacheVars,
                   now, metricVars, respVars, lastRet>>

\* fault variant of BatchCollect: a line with no path is appended as well
BatchCollectEmptyLines(infos, fileInfo) == Append(infos, fileInfo)

\* GetBatchFileInfos: a FileInfo with no path is skipped, any other is appended
BatchCollect(infos, fileInfo) ==
    IF fileInfo.path = <<>> THEN infos ELSE Append(infos, fileInfo)

\* GetBatchFileInfos: the Range visits a key, or is over and the loops go on, or the
\* loops are over and infos is returned
GetBatchFileInfosVisit(c) ==
    /\ cpc[c] = "getBatch"
    /\ LET l == cloc[c]
       IN IF l.b > Len(l.batchArr)
          THEN Return(c, "GetBatchFileInfos", l.infos, "nil", l.closed)
          ELSE /\ UNCHANGED <<cpc, lastRet>>
               /\ IF l.keys = {}
                  THEN cloc' = [cloc EXCEPT ![c] = BatchAdvance(l)]
                  ELSE \E key \in l.keys :
                         LET rest == [l EXCEPT !.keys = @ \ {key}]
                             index == l.batchArr[l.b][l.i]
                             value == objs[indexFileInfoMap[key]]
                             fileInfoMap == value.fileInfoMap
                             fileInfo == [obj |-> fileInfoMap.list, line |-> index + 1,
                                          path |-> files[fileInfoMap.list][index + 1].path,
                                          isAbs |-> FALSE]
                         IN IF \/ key \notin DOMAIN indexFileInfoMap
                               \/ ~DatasetMatches(value, l.datasetCnt)
                               \/ index >= fileInfoMap.len
                            THEN cloc' = [cloc EXCEPT ![c] = rest]
                            ELSE cloc' = [cloc EXCEPT ![c] =
                                            [rest EXCEPT !.infos = BatchCollect(@, fileInfo)]]
    /\ UNCHANGED <<closeVars, closeLock, chanVars, workerVars, janitorVars, regVars, cacheVars,
                   now, metricVars, respVars, nCalls>>

\* the members of seq at the positions in keep, in order
RECURSIVE KeepPositions(_, _)
KeepPositions(seq, keep) ==
    IF seq = <<>> THEN <<>>
    ELSE KeepPositions(SubSeq(seq, 1, Len(seq) - 1), keep)
           \o (IF Len(seq) \in keep THEN <<seq[Len(seq)]>> ELSE <<>>)

\* what a PrefetchInodeInfo that made no call of the filesystem leaves in lastRet.arg:
\* the calls of ec.batchInodeGet it made, the infos that came back and the calls of
\* ec.putIcache it made, none of which the Go function returns
NoFsCalls == [batchInodeGet |-> <<>>, infos |-> <<>>, putIcache |-> <<>>]

\* PrefetchInodeInfo(datasetCnt, batchArr) up to the first Range, for an ExtentClient
\* with (putIcache = TRUE) or without the putIcache function
PrefetchInodeInfo(c, datasetCnt, batchArr, putIcache) ==
    /\ cpc[c] = "idle"
    /\ nCalls < MaxJobs
    /\ nCalls' = nCalls + 1
    /\ IF ~putIcache
       THEN Return(c, "PrefetchInodeInfo", NoFsCalls, "nil", isClosed)
       ELSE /\ cpc' = [cpc EXCEPT ![c] = "inodes"]
            /\ LET pos == BatchSkip(batchArr, 1, 1)
               IN cloc' = [cloc EXCEPT ![c] =
                             [pc |-> "inodes", batchArr |-> batchArr,
                              datasetCnt |-> datasetCnt, b |-> pos[1], i |-> pos[2],
                              keys |-> DOMAIN indexFileInfoMap, inodes |-> <<>>,
                              closed |-> isClosed, quiet |-> NoLoadUnderWay]]
            /\ UNCHANGED lastRet
    /\ UNCHANGED <<closeVars, closeLock, chanVars, workerVars, janitorVars, regVars, cacheVars,
                   now, metricVars, respVars>>

\* fault variant of InodeCollect: an inoID of 0 is appended as well
InodeCollectZero(inodes, inoID) == Append(inodes, inoID)

\* PrefetchInodeInfo: an inoID of 0 is skipped, any other is appended
InodeCollect(inodes, inoID) ==
    IF inoID # 0 THEN Append(inodes, inoID) ELSE inodes

\* PrefetchInodeInfo: the Range visits a key, or is over and the loops go on, or the
\* loops are over: with inodes collected, ec.batchInodeGet(inodes) returns the infos
\* of those it could get and each is handed to ec.putIcache
PrefetchInodeInfoVisit(c) ==
    /\ cpc[c] = "inodes"
    /\ LET l == cloc[c]
       IN IF l.b > Len(l.batchArr)
          THEN IF l.inodes = <<>>
               THEN Return(c, "PrefetchInodeInfo", NoFsCalls, "nil", l.closed)
               ELSE \E got \in SUBSET (1..Len(l.inodes)) :
                      LET infos == KeepPositions(l.inodes, got)
                      IN Return(c, "PrefetchInodeInfo",
                                [batchInodeGet |-> <<l.inodes>>, infos |-> infos,
                                 putIcache |-> infos],
                                "nil", l.closed)
          ELSE /\ UNCHANGED <<cpc, lastRet>>
               /\ IF l.keys = {}
                  THEN cloc' = [cloc EXCEPT ![c] = BatchAdvance(l)]
                  ELSE \E key \in l.keys :
                         LET rest == [l EXCEPT !.keys = @ \ {key}]
                             index == l.batchArr[l.b][l.i]
                             value == objs[indexFileInfoMap[key]]
                             fileInfoMap == value.fileInfoMap
                         IN IF \/ key \notin DOMAIN indexFileInfoMap
                               \/ ~DatasetMatches(value, l.datasetCnt)
                               \/ index >= fileInfoMap.len
                            THEN cloc' = [cloc EXCEPT ![c] = rest]
                            ELSE cloc' = [cloc EXCEPT ![c] =
                                            [rest EXCEPT !.inodes =
                                               InodeCollect(@, files[fileInfoMap.list][index + 1].inoID)]]
    /\ UNCHANGED <<closeVars, closeLock, chanVars, workerVars, janitorVars, regVars, cacheVars,
                   now, metricVars, respVars, nCalls>>

\* ------------------------------------------------------------------ LoadIndex

\* strings.TrimSpace, for the one white-space character the model's lines may hold
RECURSIVE TrimSpace(_)
TrimSpace(str) ==
    IF str # <<>> /\ Head(str) = " " THEN TrimSpace(Tail(str))
    ELSE IF str # <<>> /\ str[Len(str)] = " " THEN TrimSpace(SubSeq(str, 1, Len(str) - 1))
    ELSE str

\* index of the last "/" of p, 0 when there is none
LastSlash(p) ==
    LET at == {i \in 1..Len(p) : p[i] = "/"}
    IN IF at = {} THEN 0 ELSE CHOOSE i \in at : \A j \in at : j <= i

\* path.Split: dir ends with the final slash, file is what follows it
SplitDir(p) == SubSeq(p, 1, LastSlash(p))
SplitFile(p) == SubSeq(p, LastSlash(p) + 1, Len(p))

\* ec.lookupPath on the snapshot: the inode the path's components lead to, 0 when
\* a component is missing
RECURSIVE FsWalk(_, _)
FsWalk(ino, comps) ==
    IF comps = <<>> THEN ino
    ELSE IF Head(comps) = <<>> THEN FsWalk(ino, Tail(comps))
    ELSE IF FsHas(ino, Head(comps)) THEN FsWalk(FsChild(ino, Head(comps)), Tail(comps))
    ELSE 0

FsLookupPath(path) == FsWalk(RootIno, Split(path))

\* case indexInfo := <-pManager.indexInfoChan
WorkerTakeIndex(w) ==
    /\ wpc[w] = "idle"
    /\ indexInfoChan # <<>>
    /\ indexInfoChan' = Tail(indexInfoChan)
    /\ wloc' = [wloc EXCEPT ![w] = [pc |-> "parse", indexInfo |-> Head(indexInfoChan)]]
    /\ wpc' = [wpc EXCEPT ![w] = "parse"]
    /\ UNCHANGED <<closeVars, closeLock, filePathChan, downloadChan, wg, janitorVars, regVars,
                   cacheVars, now, metricVars, respVars, callerVars>>

\* LoadIndex's error return after readIndexFileByLine failed
LoadIndexFail(w) ==
    /\ indexFileInfoMap' = MapDelete(indexFileInfoMap, objs[wloc[w].indexInfo].path)
    /\ wpc' = [wpc EXCEPT ![w] = "idle"]
    /\ wloc' = [wloc EXCEPT ![w] = NoLocals]

\* readIndexFileByLine: os.OpenFile, then indexInfo.fileInfoMap = make(...)
readIndexFileOpen(w) ==
    /\ wpc[w] = "parse"
    /\ \E ok \in BOOLEAN :
         IF ok
         THEN /\ objs' = [objs EXCEPT ![wloc[w].indexInfo].fileInfoMap =
                                         [list |-> wloc[w].indexInfo, len |-> 0]]
              /\ wpc' = [wpc EXCEPT ![w] = "scan"]
              /\ wloc' = [wloc EXCEPT ![w].pc = "scan"]
              /\ UNCHANGED indexFileInfoMap
         ELSE /\ LoadIndexFail(w)
              /\ UNCHANGED objs
    /\ UNCHANGED <<closeVars, closeLock, chanVars, wg, janitorVars, files, cacheVars, now, metricVars,
                   respVars, callerVars>>

\* readIndexFileByLine: one pass of the scanner loop, or the scanner's error
readIndexFileByLine(w) ==
    /\ wpc[w] = "scan"
    /\ LET o == wloc[w].indexInfo
           lines == IndexLines(objs[o].path)
           index == Len(files[o]) + 1
           cfsPath == TrimSpace(RemoveFirst(lines[index], mountPoint))
       IN \E ok \in BOOLEAN :
            IF ok
            THEN /\ files' = [files EXCEPT ![o] = Append(@, [path |-> cfsPath, inoID |-> 0,
                                                              err |-> "none"])]
                 /\ objs' = [objs EXCEPT ![o].fileInfoMap = [list |-> o, len |-> index]]
                 /\ wpc' = [wpc EXCEPT ![w] = IF index = Len(lines) THEN "store" ELSE "scan"]
                 /\ wloc' = [wloc EXCEPT ![w].pc = wpc'[w]]
                 /\ UNCHANGED indexFileInfoMap
            ELSE /\ LoadIndexFail(w)
                 /\ UNCHANGED <<objs, files>>
    /\ UNCHANGED <<closeVars, closeLock, chanVars, wg, janitorVars, cacheVars, now, metricVars, respVars,
                   callerVars>>

\* LoadIndex: indexFileInfoMap.LoadOrStore, and the file list handed to the entry found
LoadIndexStore(w) ==
    /\ wpc[w] = "store"
    /\ LET o == wloc[w].indexInfo
           path == objs[o].path
           loaded == path \in DOMAIN indexFileInfoMap
           actual == IF loaded THEN indexFileInfoMap[path] ELSE o
       IN /\ indexFileInfoMap' = IF loaded THEN indexFileInfoMap
                                 ELSE MapStore(indexFileInfoMap, path, o)
          /\ objs' = [objs EXCEPT ![actual].fileInfoMap = objs[o].fileInfoMap]
          /\ wloc' = [wloc EXCEPT ![w] = [pc |-> "range", indexInfo |-> o, actual |-> actual]]
    /\ wpc' = [wpc EXCEPT ![w] = "range"]
    /\ UNCHANGED <<closeVars, closeLock, chanVars, wg, janitorVars, files, cacheVars, now, metricVars, respVars,
                   callerVars>>

\* LoadIndex: range actual.fileInfoMap evaluates the slice once
LoadIndexRange(w) ==
    /\ wpc[w] = "range"
    /\ LET fim == objs[wloc[w].actual].fileInfoMap
       IN IF fim.len = 0
          THEN /\ wpc' = [wpc EXCEPT ![w] = "idle"]
               /\ wloc' = [wloc EXCEPT ![w] = NoLocals]
          ELSE /\ wpc' = [wpc EXCEPT ![w] = "resolve"]
               /\ wloc' = [wloc EXCEPT ![w] =
                             [pc |-> "resolve", indexInfo |-> wloc[w].indexInfo,
                              actual |-> wloc[w].actual, fileInfoMap |-> fim, index |-> 1,
                              pathDentryInfoMap |-> <<>>, inoID |-> 0, err |-> "none"]]
    /\ UNCHANGED <<closeVars, closeLock, chanVars, wg, janitorVars, regVars, cacheVars, now, metricVars,
                   respVars, callerVars>>

\* fault variant of ResolveAdvance: LoadIndex returns at the first line whose
\* getFileInode failed
ResolveAdvanceStopsOnError(l, dmap) ==
    IF l.index = l.fileInfoMap.len \/ l.err \notin {"nil", "none"} THEN NoLocals
    ELSE [l EXCEPT !.pc = "resolve", !.index = @ + 1, !.pathDentryInfoMap = dmap,
                   !.inoID = 0, !.err = "none"]

\* where LoadIndex's loop goes after the line at l.index
ResolveAdvance(l, dmap) ==
    IF l.index = l.fileInfoMap.len THEN NoLocals
    ELSE [l EXCEPT !.pc = "resolve", !.index = @ + 1, !.pathDentryInfoMap = dmap,
                   !.inoID = 0, !.err = "none"]

\* fault variant of UpsertDentry: the child is put only into an IndexDentryInfo that
\* this call stores
UpsertDentryNewOnly(parIno, fileName, ino, indexInfo) ==
    LET valid == IF indexInfo.validMinute > 0 THEN indexInfo.validMinute
                 ELSE DefaultIndexDentryExpiration
    IN IF parIno \in DOMAIN dcacheMap THEN dcacheMap
       ELSE MapStore(dcacheMap, parIno,
                     [path |-> indexInfo.path,
                      dcache |-> DcPut(NewDentryCache(valid), fileName, ino)])

\* the IndexDentryInfo getFileInode finds or stores at parIno, with the child put in
UpsertDentry(parIno, fileName, ino, indexInfo) ==
    LET valid == IF indexInfo.validMinute > 0 THEN indexInfo.validMinute
                 ELSE DefaultIndexDentryExpiration
        value == IF parIno \in DOMAIN dcacheMap THEN dcacheMap[parIno]
                 ELSE [path |-> indexInfo.path, dcache |-> NewDentryCache(valid)]
    IN MapStore(dcacheMap, parIno, [value EXCEPT !.dcache = DcPut(@, fileName, ino)])

\* fault variant of DentryPut: getFileInode returns the inode without the upsert
DentryPutSkipped(parIno, fileName, ino, indexInfo) ==
    UNCHANGED <<dcacheMap, dentryPuts>>

\* getFileInode: dcacheMap.Load / LoadOrStore at parIno and dcache.Put(fileName, ino)
DentryPut(parIno, fileName, ino, indexInfo) ==
    /\ dcacheMap' = UpsertDentry(parIno, fileName, ino, indexInfo)
    /\ dentryPuts' = dentryPuts \cup {<<parIno, fileName, ino>>}

\* LoadIndex: the loop over the file list skips a line with no path, or calls
\* getFileInode (with getDirInfo) up to its return.  ok = FALSE: ec.lookupPath or
\* ec.readdir fails though the directory is there
getFileInode(w) ==
    /\ wpc[w] = "resolve"
    /\ LET l == wloc[w]
           fp == <<l.fileInfoMap.list, l.index>>
           cfsPath == files[fp[1]][fp[2]].path
           dirPath == SplitDir(cfsPath)
           fileName == SplitFile(cfsPath)
           exist == dirPath \in DOMAIN l.pathDentryInfoMap
       IN IF cfsPath = <<>>
          THEN /\ wloc' = [wloc EXCEPT ![w] = ResolveAdvance(l, l.pathDentryInfoMap)]
               /\ UNCHANGED <<dcacheMap, dentryPuts>>
          ELSE \E ok \in BOOLEAN :
                 LET parIno == IF exist THEN l.pathDentryInfoMap[dirPath]
                               ELSE FsLookupPath(dirPath)
                     dirOk == exist \/ (ok /\ parIno # 0)
                     dmap == IF dirOk THEN MapStore(l.pathDentryInfoMap, dirPath, parIno)
                             ELSE l.pathDentryInfoMap
                     found == dirOk /\ FsHas(parIno, fileName)
                     inoID == IF found THEN FsChild(parIno, fileName) ELSE 0
                     err == IF found THEN "nil"
                            ELSE IF dirOk THEN "get inode id failed"
                            ELSE IF ok THEN "lookupPath" ELSE "fs"
                 IN /\ IF found THEN DentryPut(parIno, fileName, inoID, objs[l.actual])
                       ELSE UNCHANGED <<dcacheMap, dentryPuts>>
                    /\ wloc' = [wloc EXCEPT ![w] =
                                  [l EXCEPT !.pc = "assign", !.pathDentryInfoMap = dmap,
                                            !.inoID = inoID, !.err = err]]
    /\ wpc' = [wpc EXCEPT ![w] = IF wloc'[w] = NoLocals THEN "idle" ELSE wloc'[w].pc]
    /\ UNCHANGED <<closeVars, closeLock, chanVars, wg, janitorVars, regVars, lookupDcache, now, metricVars,
                   respVars, callerVars>>

\* LoadIndex: fInfo.inoID, err = getFileInode(...), the assignment.  err is not a field
\* of FileInfo: it records the error getFileInode last returned for it
LoadIndexAssign(w) ==
    /\ wpc[w] = "assign"
    /\ LET l == wloc[w]
       IN /\ files' = [files EXCEPT ![l.fileInfoMap.list][l.index].inoID = l.inoID,
                                    ![l.fileInfoMap.list][l.index].err = l.err]
          /\ wloc' = [wloc EXCEPT ![w] = ResolveAdvance(l, l.pathDentryInfoMap)]
    /\ wpc' = [wpc EXCEPT ![w] = IF wloc'[w] = NoLocals THEN "idle" ELSE "resolve"]
    /\ UNCHANGED <<closeVars, closeLock, chanVars, wg, janitorVars, indexFileInfoMap, objs,
                   cacheVars, now, metricVars, respVars, callerVars>>

\* -------------------------------------------------------------- GetDentryCache

\* fault variant of GetDentryCache: the stored cache is returned without the
\* IsExpired check
GetDentryCacheNoExpiry(c, parIno) ==
    /\ cpc[c] = "idle"
    /\ IF parIno \notin DOMAIN dcacheMap
       THEN Return(c, "GetDentryCache", parIno, "nil", isClosed)
       ELSE Return(c, "GetDentryCache", parIno, "dcache", isClosed)
    /\ UNCHANGED <<closeVars, closeLock, chanVars, workerVars, janitorVars, regVars,
                   cacheVars, now, metricVars, respVars, nCalls>>

\* GetDentryCache(parIno) up to the IsExpired check: nil when nothing is stored,
\* the cache when it has not expired
GetDentryCache(c, parIno) ==
    /\ cpc[c] = "idle"
    /\ IF parIno \notin DOMAIN dcacheMap
       THEN Return(c, "GetDentryCache", parIno, "nil", isClosed)
       ELSE IF ~IsExpired(dcacheMap[parIno].dcache)
       THEN Return(c, "GetDentryCache", parIno, "dcache", isClosed)
       ELSE /\ cpc' = [cpc EXCEPT ![c] = "delete"]
            /\ cloc' = [cloc EXCEPT ![c] = [pc |-> "delete", parIno |-> parIno,
                                            closed |-> isClosed]]
            /\ UNCHANGED lastRet
    /\ UNCHANGED <<closeVars, closeLock, chanVars, workerVars, janitorVars, regVars,
                   cacheVars, now, metricVars, respVars, nCalls>>

\* GetDentryCache: dcacheMap.Delete(parIno), return nil
GetDentryCacheDelete(c) ==
    /\ cpc[c] = "delete"
    /\ dcacheMap' = MapDelete(dcacheMap, cloc[c].parIno)
    /\ Return(c, "GetDentryCache", cloc[c].parIno, "nil", cloc[c].closed)
    /\ UNCHANGED <<closeVars, closeLock, chanVars, workerVars, janitorVars, regVars,
                   lookupDcache, dentryPuts, now, metricVars, respVars, nCalls>>

\* ------------------------------------------------------------ clock and janitor

\* a minute passes and the janitor's minute ticker fires.  The janitor serves a tick
\* well within the minute, so the clock waits for a sweep that is due or under way;
\* so it does for a caller between two map operations of one call.  A put that is
\* blocked, a queued IndexInfo and a LoadIndex under way may take minutes
Tick ==
    /\ now < MaxTime
    /\ jpc = "exited" \/ (jpc = "idle" /\ ~tickDue)
    /\ \A c \in Callers : cpc[c] \notin {"reset", "delete"}
    /\ now' = now + 1
    /\ tickDue' = TRUE
    /\ UNCHANGED <<closeVars, closeLock, chanVars, workerVars, jpc, jloc, regVars,
                   cacheVars, metricVars, respVars, callerVars>>

\* case <-t.C in cleanExpiredIndexInfo: the Range over indexFileInfoMap begins
cleanExpiredIndexInfo ==
    /\ jpc = "idle"
    /\ tickDue
    /\ tickDue' = FALSE
    /\ jpc' = "index"
    /\ jloc' = DOMAIN indexFileInfoMap
    /\ UNCHANGED <<closeVars, closeLock, chanVars, workerVars, regVars, cacheVars, now, metricVars,
                   respVars, callerVars>>

\* the Range over indexFileInfoMap visits a key and finds the entry expired or not;
\* after the last key the Range over dcacheMap begins
cleanIndexVisit ==
    /\ jpc = "index"
    /\ IF jloc = {}
       THEN /\ jpc' = "dcache"
            /\ jloc' = DOMAIN dcacheMap
       ELSE \E key \in jloc :
              IF /\ key \in DOMAIN indexFileInfoMap
                 /\ objs[indexFileInfoMap[key]].ttl > 0
                 /\ now > objs[indexFileInfoMap[key]].ttl
              THEN /\ jpc' = "indexDelete"
                   /\ jloc' = <<key, jloc \ {key}>>
              ELSE /\ jloc' = jloc \ {key}
                   /\ UNCHANGED jpc
    /\ UNCHANGED <<closeVars, closeLock, chanVars, workerVars, tickDue, regVars, cacheVars,
                   now, metricVars, respVars, callerVars>>

\* pManager.indexFileInfoMap.Delete(key)
cleanIndexDelete ==
    /\ jpc = "indexDelete"
    /\ indexFileInfoMap' = MapDelete(indexFileInfoMap, jloc[1])
    /\ jpc' = "index"
    /\ jloc' = jloc[2]
    /\ UNCHANGED <<closeVars, closeLock, chanVars, workerVars, tickDue, objs, files,
                   cacheVars, now, metricVars, respVars, callerVars>>

\* the Range over dcacheMap visits a key; after the last the Range over
\* lookupDcache begins
cleanDcacheVisit ==
    /\ jpc = "dcache"
    /\ IF jloc = {}
       THEN /\ jpc' = "lookup"
            /\ jloc' = DOMAIN lookupDcache
       ELSE \E key \in jloc :
              IF key \in DOMAIN dcacheMap /\ IsExpired(dcacheMap[key].dcache)
              THEN /\ jpc' = "dcacheDelete"
                   /\ jloc' = <<key, jloc \ {key}>>
              ELSE /\ jloc' = jloc \ {key}
                   /\ UNCHANGED jpc
    /\ UNCHANGED <<closeVars, closeLock, chanVars, workerVars, tickDue, regVars, cacheVars,
                   now, metricVars, respVars, callerVars>>

\* pManager.dcacheMap.Delete(key)
cleanDcacheDelete ==
    /\ jpc = "dcacheDelete"
    /\ dcacheMap' = MapDelete(dcacheMap, jloc[1])
    /\ jpc' = "dcache"
    /\ jloc' = jloc[2]
    /\ UNCHANGED <<closeVars, closeLock, chanVars, workerVars, tickDue, regVars,
                   lookupDcache, dentryPuts, now, metricVars, respVars, callerVars>>

\* the Range over lookupDcache visits a key; after the last the janitor selects again
cleanLookupVisit ==
    /\ jpc = "lookup"
    /\ IF jloc = {}
       THEN /\ jpc' = "idle"
            /\ UNCHANGED jloc
       ELSE \E key \in jloc :
              IF key \in DOMAIN lookupDcache /\ IsExpired(lookupDcache[key])
              THEN /\ jpc' = "lookupDelete"
                   /\ jloc' = <<key, jloc \ {key}>>
              ELSE /\ jloc' = jloc \ {key}
                   /\ UNCHANGED jpc
    /\ UNCHANGED <<closeVars, closeLock, chanVars, workerVars, tickDue, regVars, cacheVars,
                   now, metricVars, respVars, callerVars>>

\* pManager.lookupDcache.Delete(key)
cleanLookupDelete ==
    /\ jpc = "lookupDelete"
    /\ lookupDcache' = MapDelete(lookupDcache, jloc[1])
    /\ jpc' = "lookup"
    /\ jloc' = jloc[2]
    /\ UNCHANGED <<closeVars, closeLock, chanVars, workerVars, tickDue, regVars, dcacheMap,
                   dentryPuts,
                   now, metricVars, respVars, callerVars>>

\* ------------------------------------------------- the pool: queues and Close

NextPool ==
    \/ \E c \in Callers, p \in {PathF, PathOut}, rw \in Writers : DownloadPath(c, p, rw)
    \/ \E c \in Callers : PrefetchByPath(c, PathF)
    \/ \E c \in Callers : PutSend(c)
    \/ \E w \in Workers : WorkerTakeDownload(w)
    \/ \E w \in Workers : LookupPathByCache(w)
    \/ \E w \in Workers : ReadDataFail(w)
    \/ \E w \in Workers : ReadData(w)
    \/ \E w \in Workers : ReadDataPanic(w)
    \/ \E w \in Workers : WorkerTakePath(w)
    \/ \E w \in Workers : OsReadFile(w)
    \/ \E w \in Workers : WorkerExit(w)
    \/ JanitorExit
    \/ CloseLock
    \/ CloseSetFlag
    \/ CloseSignal
    \/ CloseWait
    \/ clearDownloadChan

SpecPool == NewPrefetchManager(2) /\ [][NextPool]_vars

\* ------------------------------- shutdown: workers, the janitor's sweeps and Close

NextShutdown ==
    \/ \E c \in GateCallers, rw \in Writers : DownloadPath(c, PathF, rw)
    \/ \E c \in GateCallers : PutSend(c)
    \/ \E w \in Workers : WorkerTakeDownload(w)
    \/ \E w \in Workers : LookupPathByCache(w)
    \/ \E w \in Workers : ReadDataFail(w)
    \/ \E w \in Workers : ReadData(w)
    \/ \E w \in Workers : ReadDataPanic(w)
    \/ \E w \in Workers : WorkerExit(w)
    \/ Tick
    \/ cleanExpiredIndexInfo
    \/ cleanIndexVisit
    \/ cleanDcacheVisit
    \/ cleanLookupVisit
    \/ cleanLookupDelete
    \/ JanitorExit
    \/ CloseLock
    \/ CloseSetFlag
    \/ CloseSignal
    \/ CloseWait
    \/ clearDownloadChan

SpecShutdown == NewPrefetchManager(1) /\ [][NextShutdown]_vars

\* ------------------------------------ read counters and the one-second tick

NextMetrics ==
    \/ AddTotalReadCount
    \/ AddAppReadCount
    \/ SecondTickSwapTotal
    \/ SecondTickSwapApp
    \/ \E w \in Workers : WorkerExit(w)
    \/ JanitorExit
    \/ CloseLock
    \/ CloseSetFlag
    \/ CloseSignal
    \/ CloseWait
    \/ clearDownloadChan

SpecMetrics == NewPrefetchManager(1) /\ [][NextMetrics]_vars

\* ------------------------------------------------- Close under fair scheduling

\* a step of a worker inside a handler
HandlerStep(w) ==
    \/ LookupPathByCache(w)
    \/ ReadDataFail(w)
    \/ ReadData(w)
    \/ ReadDataPanic(w)
    \/ OsReadFile(w)

NextLive ==
    \/ \E c \in GateCallers, rw \in Writers : DownloadPath(c, PathF, rw)
    \/ \E c \in GateCallers : PrefetchByPathLive(c, PathF)
    \/ \E c \in GateCallers : PutSend(c)
    \/ \E w \in Workers : WorkerTakeDownload(w)
    \/ \E w \in Workers : WorkerTakePath(w)
    \/ \E w \in Workers : HandlerStep(w)
    \/ \E w \in Workers : WorkerExit(w)
    \/ JanitorExit
    \/ CloseLock
    \/ CloseSetFlag
    \/ CloseSignal
    \/ CloseWait
    \/ clearDownloadChan

\* every goroutine that can take a step eventually takes one: a caller inside a call
\* (the calls themselves are the environment's choice), a worker inside a handler, a
\* worker with an item to take, Close; a select whose closeC case is ready again and
\* again eventually takes it, Go choosing at random among the ready cases
FairLive ==
    /\ WF_vars(\E c \in GateCallers : PutSend(c))
    /\ WF_vars(\E w \in Workers : WorkerTakeDownload(w) \/ WorkerTakePath(w))
    /\ WF_vars(\E w \in Workers : HandlerStep(w))
    /\ SF_vars(\E w \in Workers : WorkerExit(w))
    /\ SF_vars(JanitorExit)
    /\ WF_vars(CloseSetFlag \/ CloseSignal \/ CloseWait \/ clearDownloadChan)

SpecLive == NewPrefetchManager(1) /\ [][NextLive]_vars /\ FairLive

\* ------------------------------------ the shutdown gate: every enqueuer and Close

NextGate ==
    \/ \E c \in GateCallers : AddIndexFilepath(c, "1", IndexC, 0)
    \/ \E c \in GateCallers : resetExistedIndexInfo(c)
    \/ \E c \in GateCallers : AddIndexStat(c)
    \/ \E c \in GateCallers, index \in {0, 1} : PrefetchByIndex(c, "1", index)
    \/ \E c \in GateCallers : PrefetchByIndexVisit(c)
    \/ \E c \in GateCallers : PrefetchByPath(c, PathF)
    \/ \E c \in GateCallers, rw \in Writers : DownloadPath(c, PathF, rw)
    \/ \E c \in GateCallers, obj \in 1..MaxIndexInfos, line \in 1..MaxLines, rw \in Writers :
          DownloadData(c, obj, line, rw)
    \/ \E c \in GateCallers : PutSend(c)
    \/ \E w \in Workers : WorkerTakeIndex(w)
    \/ \E w \in Workers : readIndexFileOpen(w)
    \/ \E w \in Workers : readIndexFileByLine(w)
    \/ \E w \in Workers : LoadIndexStore(w)
    \/ \E w \in Workers : LoadIndexRange(w)
    \/ \E w \in Workers : getFileInode(w)
    \/ \E w \in Workers : LoadIndexAssign(w)
    \/ \E w \in Workers : WorkerTakeDownload(w)
    \/ \E w \in Workers : LookupPathByCache(w)
    \/ \E w \in Workers : ReadDataFail(w)
    \/ \E w \in Workers : ReadData(w)
    \/ \E w \in Workers : ReadDataPanic(w)
    \/ \E w \in Workers : WorkerTakePath(w)
    \/ \E w \in Workers : OsReadFile(w)
    \/ \E w \in Workers : WorkerExit(w)
    \/ JanitorExit
    \/ CloseLock
    \/ CloseSetFlag
    \/ CloseSignal
    \/ CloseWait
    \/ clearDownloadChan

SpecGate == NewPrefetchManager(1) /\ [][NextGate]_vars

\* ------------------- the registry and the dentry caches: AddIndex, LoadIndex, janitor

\* no download runs here, so lookupDcache stays empty and its Range deletes nothing
NextRegistry ==
    \/ \E c \in Callers, path \in {IndexC, IndexNone}, ttlMinute \in {0, 1} :
          AddIndexFilepath(c, "1", path, ttlMinute)
    \/ \E c \in Callers : resetExistedIndexInfo(c)
    \/ \E c \in Callers : AddIndexStat(c)
    \/ \E c \in Callers : PutSend(c)
    \/ \E c \in Callers : GetDentryCache(c, 2)
    \/ \E c \in Callers : GetDentryCacheDelete(c)
    \/ \E w \in Workers : WorkerTakeIndex(w)
    \/ \E w \in Workers : readIndexFileOpen(w)
    \/ \E w \in Workers : readIndexFileByLine(w)
    \/ \E w \in Workers : LoadIndexStore(w)
    \/ \E w \in Workers : LoadIndexRange(w)
    \/ \E w \in Workers : getFileInode(w)
    \/ \E w \in Workers : LoadIndexAssign(w)
    \/ Tick
    \/ cleanExpiredIndexInfo
    \/ cleanIndexVisit
    \/ cleanIndexDelete
    \/ cleanDcacheVisit
    \/ cleanDcacheDelete
    \/ cleanLookupVisit

SpecRegistry == NewPrefetchManager(2) /\ [][NextRegistry]_vars

\* ------------------------------------------- the framing of download records

\* paths and file contents a download can meet; 0 and 8 are bytes of a length field
FramePaths == {<<"/">>, PathMount, PathF}
FrameBytes == {0, 8, 104}
FrameContents == {<<a>> : a \in FrameBytes} \cup {<<a, b>> : a, b \in FrameBytes}

NextFrame ==
    \E rw \in Writers, filePath \in FramePaths, content \in FrameContents, readSize \in 1..2 :
        ReadDataWrite(rw, filePath, content, readSize)

SpecFrame == NewPrefetchManager(1) /\ [][NextFrame]_vars

\* ----------------------------------- loading index files: AddIndex and LoadIndex

\* the clock stands still here: no entry expires and no dentry cache is swept
NextLoad ==
    \/ \E c \in GateCallers, path \in {IndexA, IndexB}, ttlMinute \in {0, 1} :
          AddIndexFilepath(c, "1", path, ttlMinute)
    \/ \E c \in GateCallers : resetExistedIndexInfo(c)
    \/ \E c \in GateCallers : AddIndexStat(c)
    \/ \E c \in GateCallers : PutSend(c)
    \/ \E w \in Workers : WorkerTakeIndex(w)
    \/ \E w \in Workers : readIndexFileOpen(w)
    \/ \E w \in Workers : readIndexFileByLine(w)
    \/ \E w \in Workers : LoadIndexStore(w)
    \/ \E w \in Workers : LoadIndexRange(w)
    \/ \E w \in Workers : getFileInode(w)
    \/ \E w \in Workers : LoadIndexAssign(w)

SpecLoad == NewPrefetchManager(2) /\ [][NextLoad]_vars

\* two indexes with lines in the same directory, loaded one after the other, and
\* AddIndex called again on a registered path
NextShared ==
    \/ \E c \in GateCallers, path \in {IndexA, IndexB}, ttlMinute \in {0, 1} :
          AddIndexFilepathShared(c, "1", path, ttlMinute)
    \/ \E c \in GateCallers : resetExistedIndexInfo(c)
    \/ \E c \in GateCallers : AddIndexStat(c)
    \/ \E c \in GateCallers : PutSend(c)
    \/ \E w \in Workers : WorkerTakeIndex(w)
    \/ \E w \in Workers : readIndexFileOpen(w)
    \/ \E w \in Workers : readIndexFileByLine(w)
    \/ \E w \in Workers : LoadIndexStore(w)
    \/ \E w \in Workers : LoadIndexRange(w)
    \/ \E w \in Workers : getFileInode(w)
    \/ \E w \in Workers : LoadIndexAssign(w)

SpecShared == NewPrefetchManager(1) /\ [][NextShared]_vars

\* one caller registers index files under two dataset ids and prefetches by line
\* index, in range and out of range; one worker loads the indexes and reads the files
DatasetIds == {"1", "2"}

NextPrefetch ==
    \/ \E c \in GateCallers, datasetCnt \in DatasetIds, path \in {IndexA, IndexC} :
          AddIndexFilepath(c, datasetCnt, path, 0)
    \/ \E c \in GateCallers : resetExistedIndexInfo(c)
    \/ \E c \in GateCallers : AddIndexStat(c)
    \/ \E c \in GateCallers, datasetCnt \in DatasetIds, index \in 0..MaxLines :
          PrefetchByIndex(c, datasetCnt, index)
    \/ \E c \in GateCallers : PrefetchByIndexVisit(c)
    \/ \E c \in GateCallers : PutSend(c)
    \/ \E w \in Workers : WorkerTakeIndex(w)
    \/ \E w \in Workers : readIndexFileOpen(w)
    \/ \E w \in Workers : readIndexFileByLine(w)
    \/ \E w \in Workers : LoadIndexStore(w)
    \/ \E w \in Workers : LoadIndexRange(w)
    \/ \E w \in Workers : getFileInode(w)
    \/ \E w \in Workers : LoadIndexAssign(w)
    \/ \E w \in Workers : WorkerTakePath(w)
    \/ \E w \in Workers : OsReadFile(w)

SpecPrefetch == NewPrefetchManager(1) /\ [][NextPrefetch]_vars

\* the batches of line indexes (from 0) that are asked for: two batches out of order,
\* an empty line with an index out of range, an empty batch before a batch of two
BatchArrs == {<< <<2>>, <<0>> >>, << <<1, 3>> >>, << <<>>, <<0, 2>> >>}

\* one caller registers index files under two dataset ids and asks for the FileInfos
\* and for the inodes of batches of lines of dataset 1, while one worker loads the
\* indexes
NextBatch ==
    \/ \E c \in GateCallers, datasetCnt \in DatasetIds, path \in {IndexA, IndexC} :
          AddIndexFilepath(c, datasetCnt, path, 0)
    \/ \E c \in GateCallers : resetExistedIndexInfo(c)
    \/ \E c \in GateCallers : AddIndexStat(c)
    \/ \E c \in GateCallers : PutSend(c)
    \/ \E c \in GateCallers, batchArr \in BatchArrs :
          GetBatchFileInfos(c, batchArr, "1")
    \/ \E c \in GateCallers : GetBatchFileInfosVisit(c)
    \/ \E c \in GateCallers, batchArr \in BatchArrs, putIcache \in BOOLEAN :
          PrefetchInodeInfo(c, "1", batchArr, putIcache)
    \/ \E c \in GateCallers : PrefetchInodeInfoVisit(c)
    \/ \E w \in Workers : WorkerTakeIndex(w)
    \/ \E w \in Workers : readIndexFileOpen(w)
    \/ \E w \in Workers : readIndexFileByLine(w)
    \/ \E w \in Workers : LoadIndexStore(w)
    \/ \E w \in Workers : LoadIndexRange(w)
    \/ \E w \in Workers : getFileInode(w)
    \/ \E w \in Workers : LoadIndexAssign(w)

SpecBatch == NewPrefetchManager(1) /\ [][NextBatch]_vars

\* ------------------------- resolving absolute paths: downloads by path, janitor

LookupPaths == {PathF, PathD, PathMissing}

NextLookup ==
    \/ \E c \in GateCallers, p \in LookupPaths, rw \in Writers : DownloadPath(c, p, rw)
    \/ \E c \in GateCallers : PutSend(c)
    \/ \E w \in Workers : WorkerTakeDownload(w)
    \/ \E w \in Workers : LookupPathByCache(w)
    \/ \E w \in Workers : ReadDataFail(w)
    \/ \E w \in Workers : ReadData(w)
    \/ Tick
    \/ cleanExpiredIndexInfo
    \/ cleanIndexVisit
    \/ cleanDcacheVisit
    \/ cleanLookupVisit
    \/ cleanLookupDelete

SpecLookup == NewPrefetchManager(2) /\ [][NextLookup]_vars

\* the paths with nothing below the mount point, and a file
MountPaths == {PathMount, PathMountSlash, PathSlashes, PathF}

\* downloads by absolute path of the mount point itself, with and without slashes
\* after it, handled by one worker
NextMount ==
    \/ \E c \in GateCallers, p \in MountPaths, rw \in Writers : DownloadPath(c, p, rw)
    \/ \E c \in GateCallers : PutSend(c)
    \/ \E w \in Workers : WorkerTakeDownload(w)
    \/ \E w \in Workers : LookupPathByCache(w)
    \/ \E w \in Workers : ReadDataFail(w)
    \/ \E w \in Workers : ReadData(w)

SpecMount == NewPrefetchManager(1) /\ [][NextMount]_vars

\* ------------------------------ workers writing records to one response writer

NextWriter ==
    \/ \E w \in Workers, rw \in Writers, filePath \in {PathMount, PathF},
          content \in {<<0>>, <<8, 104>>}, readSize \in 1..2 :
          ReadDataRespond(w, rw, filePath, content, readSize)
    \/ \E w \in Workers : RespLock(w)
    \/ \E w \in Workers : RespWrite(w)
    \/ \E w \in Workers : RespFlush(w)
    \/ \E w \in Workers : RespUnlock(w)

SpecWriter == NewPrefetchManager(2) /\ [][NextWriter]_vars

\* ======================================================================
\* Properties
\* ======================================================================

\* job j sits in downloadChan
Queued(j) == \E i \in 1..Len(downloadChan) : downloadChan[i].id = j

\* a caller is inside putDownloadChan with job j, past resp.Wg.Add(1)
Sending(j) ==
    \E c \in Callers : cpc[c] = "send" /\ cloc[c].chan = "download" /\ cloc[c].item.id = j

\* a worker is inside ReadData with job j
Handling(j) ==
    \E w \in Workers : wpc[w] \in {"lookup", "open", "fail"} /\ wloc[w].job.id = j

\* the Add calls not yet matched by a Done, over the jobs 1..n
RECURSIVE Outstanding(_)
Outstanding(n) ==
    IF n = 0 THEN 0
    ELSE jobLog[n].add - jobLog[n].doneW - jobLog[n].doneC + Outstanding(n - 1)

RECURSIVE SumWg(_)
SumWg(S) ==
    IF S = {} THEN 0
    ELSE LET rw == CHOOSE x \in S : TRUE IN respWg[rw] + SumWg(S \ {rw})

C3_ClosedGateAdmitsNothing ==
    [][isClosed =>
         /\ Len(indexInfoChan') <= Len(indexInfoChan)
         /\ Len(filePathChan') <= Len(filePathChan)
         /\ Len(downloadChan') <= Len(downloadChan)
         /\ \A j \in JobIds : jobLog'[j].add = jobLog[j].add
         /\ \A rw \in Writers : respWg'[rw] <= respWg[rw]
         /\ lastRet'.seq # lastRet.seq => lastRet'.put # "nil"]_vars

\* after the flag was set, with items still queued, an index-load put failed with Closed
C3_Witness ==
    /\ isClosed
    /\ lastRet.op = "AddIndex"
    /\ lastRet.put = "Closed"
    /\ lastRet.closed
    /\ filePathChan # <<>>
    /\ downloadChan # <<>>

PutOps == {"AddIndex", "PrefetchByIndex", "PrefetchByPath", "DownloadData", "DownloadPath"}

C5_GetDentryCacheNeverReturnsExpired ==
    [][lastRet'.seq # lastRet.seq /\ lastRet'.op = "GetDentryCache" =>
         LET p == lastRet'.arg
         IN /\ lastRet'.ret \in {"dcache", "nil"}
            /\ lastRet'.ret = "dcache" =>
                 /\ p \in DOMAIN dcacheMap
                 /\ ~IsExpired(dcacheMap[p].dcache)
                 /\ dcacheMap' = dcacheMap
            /\ lastRet'.ret = "nil" =>
                 /\ p \notin DOMAIN dcacheMap'
                 /\ p \notin DOMAIN dcacheMap => dcacheMap' = dcacheMap]_vars

\* a call returned the cache while it was fresh, and a later call has found it expired
C5_Witness ==
    /\ lastRet.op = "GetDentryCache"
    /\ lastRet.ret = "dcache"
    /\ \E c \in Callers :
         /\ cpc[c] = "delete"
         /\ cloc[c].parIno \in DOMAIN dcacheMap
         /\ IsExpired(dcacheMap[cloc[c].parIno].dcache)

\* C6: the entry GetDentryCache removes from dcacheMap is expired when it is removed.
C6_GetDentryCacheRemovesOnlyExpired ==
    [][\A c \in Callers :
         cpc[c] = "delete" /\ cpc'[c] = "idle" /\ cloc[c].parIno \in DOMAIN dcacheMap =>
             IsExpired(dcacheMap[cloc[c].parIno].dcache)]_vars

\* C7: the registry holds no entry with ttl > 0 later than one janitor period (one
\* minute) after that ttl.
C7_ExpiredEntryGoneAfterOnePeriod ==
    \A path \in DOMAIN indexFileInfoMap :
        LET indexInfo == objs[indexFileInfoMap[path]]
        IN indexInfo.ttl > 0 => now <= indexInfo.ttl + 1

\* C8: a Delete of the janitor's Range over indexFileInfoMap removes no entry whose
\* ttl is 0.
C8_JanitorKeepsEntriesWithoutTTL ==
    [][jpc = "indexDelete" /\ jpc' = "index" =>
         \A path \in DOMAIN indexFileInfoMap :
             objs[indexFileInfoMap[path]].ttl = 0 => path \in DOMAIN indexFileInfoMap']_vars

\* line i of the list o is in the file list of a registered IndexInfo
InRegistry(o, i) ==
    \E path \in DOMAIN indexFileInfoMap :
        LET fileInfoMap == objs[indexFileInfoMap[path]].fileInfoMap
        IN fileInfoMap.list = o /\ i <= fileInfoMap.len

\* C9: the inoID of a FileInfo that is in the registry before and after a step, and
\* was not 0 before it, is the same after it.
C9_InodeSetOnce ==
    [][\A o \in 1..Len(files) : \A i \in 1..Len(files[o]) :
         files[o][i].inoID # 0 /\ InRegistry(o, i) /\ InRegistry(o, i)' =>
             files'[o][i].inoID = files[o][i].inoID]_vars

\* what a reader of the stream makes of an 8-byte big-endian length: -1 when it is
\* 2^24 or more, beyond any stream met here
Uint64(b) ==
    IF \E i \in 1..5 : b[i] # 0 THEN -1
    ELSE b[6] * 65536 + b[7] * 256 + b[8]

\* what the parse yields in place of a record it cannot read
Malformed == <<<<-1>>, <<>>>>

\* the stream read as pathLen, path, dataLen, data, record after record
RECURSIVE ParseRecords(_)
ParseRecords(bytes) ==
    IF bytes = <<>> THEN <<>>
    ELSE IF Len(bytes) < 8 THEN <<Malformed>>
    ELSE LET pathLen == Uint64(SubSeq(bytes, 1, 8))
         IN IF pathLen < 0 \/ Len(bytes) < 16 + pathLen THEN <<Malformed>>
            ELSE LET dataLen == Uint64(SubSeq(bytes, 9 + pathLen, 16 + pathLen))
                 IN IF dataLen < 0 \/ Len(bytes) < 16 + pathLen + dataLen THEN <<Malformed>>
                    ELSE <<<<SubSeq(bytes, 9, 8 + pathLen),
                             SubSeq(bytes, 17 + pathLen, 16 + pathLen + dataLen)>>>>
                         \o ParseRecords(SubSeq(bytes, 17 + pathLen + dataLen, Len(bytes)))

\* the length of the stream that holds the records log
RECURSIVE FramedLen(_)
FramedLen(log) ==
    IF log = <<>> THEN 0
    ELSE 8 + Len(Head(log)[1]) + 8 + Len(Head(log)[2]) + FramedLen(Tail(log))

\* C10: the bytes a response writer has received are, record after record, the 8-byte
\* big-endian length of the path, the path, the 8-byte big-endian length n of the
\* data and the first n bytes read, 8 + len(path) + 8 + n bytes each; parsing them
\* by pathLen, path, dataLen, data gives back the (path, data) pairs written, in order.
C10_FramingRoundTrip ==
    \A rw \in Writers :
        /\ ParseRecords(respOut[rw]) = respLog[rw]
        /\ Len(respOut[rw]) = FramedLen(respLog[rw])

\* two records with different paths were written, the first with a data byte 0 and
\* cut short of the content read
C10_Witness ==
    \E rw \in Writers :
        /\ Len(respLog[rw]) = 2
        /\ respLog[rw][1][1] # respLog[rw][2][1]
        /\ respLog[rw][1][2] = <<0>>
        /\ Len(respLog[rw][2][2]) = 2

\* the sequence s without its last element
Front(s) == SubSeq(s, 1, Len(s) - 1)

\* C11: at most one worker is between Lock and Unlock of a response writer's write,
\* and the stream is whole records, each contiguous, in the order the workers took the
\* mutex, followed only by the bytes the holder of the mutex has written of its own
\* record so far: no byte of another record lies inside a record.
C11_RecordsNeverInterleave ==
    \A rw \in Writers :
        LET holders == {w \in Workers : InWrite(w, rw)}
        IN /\ Cardinality(holders) <= 1
           /\ holders = {} => ParseRecords(respOut[rw]) = respLog[rw]
           /\ \A w \in holders :
                LET l == wloc[w]
                    whole == Len(respOut[rw]) - l.sent
                IN /\ whole >= 0
                   /\ respLog[rw] # <<>>
                   /\ respLog[rw][Len(respLog[rw])] = <<l.path, l.data>>
                   /\ ParseRecords(SubSeq(respOut[rw], 1, whole)) = Front(respLog[rw])
                   /\ SubSeq(respOut[rw], whole + 1, Len(respOut[rw]))
                        = SubSeq(l.record, 1, l.sent)
                   /\ wpc[w] \in {"respFlush", "respUnlock"} => l.sent = Len(l.record)

\* a worker is part-way through its record while the other worker, with a different
\* record for the same writer, waits at Lock
C11_Witness ==
    \E w, x \in Workers, rw \in Writers :
        /\ InWrite(w, rw)
        /\ wloc[w].sent > 0 /\ wloc[w].sent < Len(wloc[w].record)
        /\ wpc[x] = "respLock" /\ wloc[x].resp = rw
        /\ wloc[x].record # wloc[w].record

\* C12: a step in which ReadData comes to fail (its path is outside the mount or does
\* not resolve, OpenStream fails, the file size is invalid or 0, the read fails or
\* gives 0 bytes) writes nothing; the step that ends the handling of the failed job
\* writes no byte to any response writer, calls resp.Wg.Done() for the job once and
\* for the first time, leaves the worker selecting again with the pool's wait-group
\* as it was, and hands nothing to any caller.
C12_FailedDownloadWritesNothing ==
    [][\A w \in Workers :
         /\ wpc'[w] = "fail" /\ wpc[w] # "fail" =>
              respOut' = respOut /\ respLog' = respLog /\ respWg' = respWg
         /\ wpc[w] = "fail" /\ wpc'[w] # "fail" =>
              LET d == wloc[w].job
              IN /\ respOut' = respOut
                 /\ respLog' = respLog
                 /\ respWg'[d.resp] = respWg[d.resp] - 1
                 /\ jobLog[d.id].doneW + jobLog[d.id].doneC = 0
                 /\ jobLog'[d.id].doneW = 1 /\ jobLog'[d.id].doneC = 0
                 /\ wpc'[w] = "idle"
                 /\ wg' = wg
                 /\ lastRet' = lastRet]_vars

\* two jobs have failed and been finished by workers with nothing written, a third
\* has just failed in its read, and both workers are still running with Close not called
C12_Witness ==
    /\ closePc = "open"
    /\ \A rw \in Writers : respOut[rw] = <<>>
    /\ \E i, j \in JobIds : i # j /\ jobLog[i].doneW = 1 /\ jobLog[j].doneW = 1
    /\ \E w \in Workers : wpc[w] = "fail" /\ wloc[w].err = "read"
    /\ \A w \in Workers : wpc[w] # "exited"

\* C13: a worker leaves its loop only when Close has closed closeC: as long as Close
\* has not been called, every worker that was started is still running, whatever
\* panics its items raised.
C13_WorkersSurvivePanics ==
    \A w \in Workers : wpc[w] = "exited" => closeC

\* C14: when AddIndexFilepath(_, path, ttlMinute) has found an entry at path and
\* resetExistedIndexInfo finds it not expired, that step sets the entry's ttl to
\* now + ttlMinute and its validMinute to ttlMinute (both 0 for ttlMinute = 0), sets the
\* expiration of every dcacheMap entry owned by path to now + ttlMinute (or now + the
\* default for ttlMinute = 0) and leaves its names, leaves every other IndexInfo, every
\* other dcacheMap entry, the registry, all file lists and inodes and all three queues
\* as they were, and returns nil with no enqueue attempted.
C14_RefreshInPlace ==
    [][\A c \in Callers :
         (/\ cpc[c] = "reset" /\ cpc'[c] # "reset"
          /\ ~(objs[cloc[c].old].ttl > 0 /\ now > objs[cloc[c].old].ttl)) =>
             LET o == cloc[c].old
                 m == cloc[c].ttlMinute
                 valid == IF m = 0 THEN DefaultIndexDentryExpiration ELSE m
             IN /\ objs'[o] = [objs[o] EXCEPT !.ttl = IF m = 0 THEN 0 ELSE now + m,
                                              !.validMinute = m]
                /\ \A x \in DOMAIN objs : x # o => objs'[x] = objs[x]
                /\ files' = files
                /\ indexFileInfoMap' = indexFileInfoMap
                /\ DOMAIN dcacheMap' = DOMAIN dcacheMap
                /\ \A k \in DOMAIN dcacheMap :
                     IF dcacheMap[k].path = objs[o].path
                     THEN /\ dcacheMap'[k].dcache.expiration = now + valid
                          /\ dcacheMap'[k].dcache.cache = dcacheMap[k].dcache.cache
                          /\ dcacheMap'[k].path = dcacheMap[k].path
                     ELSE dcacheMap'[k] = dcacheMap[k]
                /\ <<indexInfoChan, filePathChan, downloadChan>>'
                     = <<indexInfoChan, filePathChan, downloadChan>>
                /\ cpc'[c] = "idle"
                /\ lastRet'.op = "AddIndex" /\ lastRet'.ret = "nil" /\ lastRet'.put = "none"]_vars

\* a minute after the index was loaded, AddIndex with a TTL of one minute has returned
\* nil: the entry's ttl and the expiration of its dentry cache have moved to now + 1,
\* the resolved inode is still in place and the index queue is empty
C14_Witness ==
    /\ now >= 1
    /\ lastRet.op = "AddIndex" /\ lastRet.ret = "nil" /\ lastRet.put = "none"
    /\ indexInfoChan = <<>>
    /\ IndexC \in DOMAIN indexFileInfoMap
    /\ LET indexInfo == objs[indexFileInfoMap[IndexC]]
       IN /\ indexInfo.ttl = now + 1
          /\ indexInfo.fileInfoMap.len = 1
          /\ files[indexInfo.fileInfoMap.list][1].inoID = 3
    /\ 2 \in DOMAIN dcacheMap
    /\ dcacheMap[2].path = IndexC
    /\ dcacheMap[2].dcache.expiration = now + 1
    /\ \A c \in Callers : cpc[c] = "idle"

\* C15: when the LoadIndex of an IndexInfo that AddIndexFilepath stored over an expired
\* entry has parsed its file and passed LoadOrStore, the registry has an entry at the
\* path that carries the ttl and validMinute of that IndexInfo and, as its file list,
\* the list that load parsed, one FileInfo per line of the file.
C15_ExpiredEntryReplacedAndReloaded ==
    [][\A w \in Workers :
         (/\ wpc[w] = "store" /\ wpc'[w] = "range"
          /\ objs[wloc[w].indexInfo].replaces # 0) =>
             LET n == wloc[w].indexInfo
                 path == objs[n].path
             IN /\ path \in DOMAIN indexFileInfoMap'
                /\ LET e == objs'[indexFileInfoMap'[path]]
                   IN /\ e.ttl = objs[n].ttl
                      /\ e.validMinute = objs[n].validMinute
                      /\ e.fileInfoMap = [list |-> n, len |-> Len(IndexLines(path))]
                      /\ Len(files'[n]) = Len(IndexLines(path))]_vars

\* C16: when AddIndexFilepath has stored its IndexInfo at a path that was free or held
\* an expired entry, and the index file does not exist, the call returns NotFound with
\* no put attempted, no queue changed and no entry left at the path; and no IndexInfo
\* of a missing file is ever on indexInfoChan, on its way there, or being loaded.
C16_MissingIndexFileIsNotFound ==
    [][/\ \A c \in Callers :
            (cpc[c] = "stat" /\ cpc'[c] # "stat" /\ ~IndexExists(cloc[c].path)) =>
                /\ cloc[c].path \notin DOMAIN indexFileInfoMap'
                /\ lastRet'.op = "AddIndex"
                /\ lastRet'.ret = "NotFound"
                /\ lastRet'.put = "none"
                /\ cpc'[c] = "idle"
                /\ <<indexInfoChan, filePathChan, downloadChan>>'
                     = <<indexInfoChan, filePathChan, downloadChan>>
       /\ \A i \in 1..Len(indexInfoChan') : IndexExists(objs'[indexInfoChan'[i]].path)
       /\ \A c \in Callers : cpc'[c] = "send" => IndexExists(objs'[cloc'[c].item].path)
       /\ \A w \in Workers :
            wpc'[w] \in {"parse", "scan", "store", "range", "resolve", "assign"} =>
                IndexExists(objs'[wloc'[w].indexInfo].path)]_vars

\* two calls for the missing file have returned NotFound, the second after storing its
\* IndexInfo over the expired one of the first, and the registry has no entry at the path
C16_Witness ==
    /\ lastRet.op = "AddIndex" /\ lastRet.ret = "NotFound"
    /\ IndexNone \notin DOMAIN indexFileInfoMap
    /\ \E o \in DOMAIN objs : objs[o].path = IndexNone /\ objs[o].replaces # 0
    /\ \A c \in Callers : cpc[c] = "idle"
    /\ indexInfoChan = <<>>

\* the index files as a reader of the disk and of the filesystem sees them: for each
\* line the path below the mount, the inode of its directory, its basename and its
\* inode (0 where there is none)
ExpectedLines(path) ==
    CASE path = IndexA ->
           <<[path |-> <<"/", "d", "/", "f">>, parIno |-> 2, name |-> <<"f">>, ino |-> 3],
             [path |-> <<>>, parIno |-> 0, name |-> <<>>, ino |-> 0],
             [path |-> <<"/", "d", "/", "g">>, parIno |-> 2, name |-> <<"g">>, ino |-> 4]>>
      [] path = IndexB ->
           <<[path |-> <<"/", "d", "/", "g">>, parIno |-> 2, name |-> <<"g">>, ino |-> 4],
             [path |-> <<"/", "q", "/", "f">>, parIno |-> 0, name |-> <<"f">>, ino |-> 0]>>
      [] path = IndexC ->
           <<[path |-> <<"/", "d", "/", "f">>, parIno |-> 2, name |-> <<"f">>, ino |-> 3]>>
      [] OTHER -> <<>>

\* IndexInfo o is not queued, not on its way to the queue and not being loaded
LoadDone(o) ==
    /\ \A i \in 1..Len(indexInfoChan) : indexInfoChan[i] # o
    /\ \A c \in Callers : cpc[c] = "stat" => cloc[c].new # o
    /\ \A c \in Callers : cpc[c] = "send" => cloc[c].item # o
    /\ \A w \in Workers :
         wpc[w] \in {"parse", "scan", "store", "range", "resolve", "assign"} => wloc[w].indexInfo # o

\* C17: once the load of a registered index is over, the entry's file list has one
\* FileInfo per line of the file, in the file's order, each with the line's path below
\* the mount; a line with no path, no such directory or no such name has inode 0; a
\* line whose directory and name exist has the filesystem's inode, and dcacheMap at
\* the directory's inode maps the name to that inode, unless a call of the filesystem
\* failed with an error while the line was resolved.
C17_LoadIndexResolvesEveryLine ==
    \A path \in DOMAIN indexFileInfoMap :
        LET o == indexFileInfoMap[path]
            fileInfoMap == objs[o].fileInfoMap
            lines == ExpectedLines(path)
        IN LoadDone(o) =>
             /\ fileInfoMap.len = Len(lines)
             /\ \A i \in 1..Len(lines) :
                  LET fileInfo == files[fileInfoMap.list][i]
                      line == lines[i]
                  IN /\ fileInfo.path = line.path
                     /\ line.ino = 0 => fileInfo.inoID = 0
                     /\ line.ino # 0 /\ fileInfo.err # "fs" =>
                          /\ fileInfo.inoID = line.ino
                          /\ line.parIno \in DOMAIN dcacheMap
                          /\ DcHas(dcacheMap[line.parIno].dcache, line.name)
                          /\ DcGet(dcacheMap[line.parIno].dcache, line.name) = line.ino

\* both index files are loaded: /d/f, an empty line and /d/g have inodes 3, 0 and 4,
\* /d/g and /q/f have 4 and 0, and the dentry cache of directory 2 maps f and g
C17_Witness ==
    /\ DOMAIN indexFileInfoMap = {IndexA, IndexB}
    /\ LoadDone(indexFileInfoMap[IndexA]) /\ LoadDone(indexFileInfoMap[IndexB])
    /\ LET a == files[objs[indexFileInfoMap[IndexA]].fileInfoMap.list]
           b == files[objs[indexFileInfoMap[IndexB]].fileInfoMap.list]
       IN /\ <<a[1].inoID, a[2].inoID, a[3].inoID>> = <<3, 0, 4>>
          /\ <<b[1].inoID, b[2].inoID>> = <<4, 0>>
    /\ DOMAIN dcacheMap = {2}
    /\ DcGet(dcacheMap[2].dcache, <<"f">>) = 3
    /\ DcGet(dcacheMap[2].dcache, <<"g">>) = 4

\* C18: every FileInfo with inoID # 0, in the registry or not, is one for whose
\* directory inode, basename and inoID a Put into a dentry cache of dcacheMap has been
\* made before, whether or not that cache is still in dcacheMap.
C18_InodeOnlyAfterDentryPut ==
    \A o \in 1..Len(files) : \A i \in 1..Len(files[o]) :
        files[o][i].inoID # 0 =>
            LET line == ExpectedLines(objs[o].path)[i]
            IN <<line.parIno, line.name, files[o][i].inoID>> \in dentryPuts

\* a registered index still has its resolved inode after the dentry cache it was put
\* into has expired and been removed from dcacheMap
C18_Witness ==
    /\ IndexC \in DOMAIN indexFileInfoMap
    /\ LET fileInfoMap == objs[indexFileInfoMap[IndexC]].fileInfoMap
       IN fileInfoMap.len = 1 /\ files[fileInfoMap.list][1].inoID = 3
    /\ dcacheMap = <<>>
    /\ <<2, <<"f">>, 3>> \in dentryPuts

\* the inode a walk from the root with FS.Lookup on each non-empty component below
\* the mount point ends at, 0 when a component is missing
ExpectedInode(absPath) ==
    CASE absPath = PathF -> 3
      [] absPath = PathD -> 2
      [] OTHER -> 0

\* C19: when LookupPathByCache returns an inode for a path, it is the inode the walk
\* ends at; when it returns the error of a lookup of a name that is not there, the
\* walk fails as well; a name the walk finds is never reported missing.  (A lookup
\* that fails with another error on a name that is there is left aside.)
C19_LookupPathByCacheIsTheWalk ==
    [][\A w \in Workers :
         wpc[w] = "lookup" =>
             LET absPath == wloc[w].job.absPath
             IN /\ wpc'[w] = "open" =>
                     /\ ExpectedInode(absPath) # 0
                     /\ wloc'[w].ino = ExpectedInode(absPath)
                /\ wpc'[w] = "fail" =>
                     /\ wloc'[w].err \in {"lookup", "fs"}
                     /\ wloc'[w].err = "lookup" <=> ExpectedInode(absPath) = 0
                /\ wpc'[w] \in {"lookup", "open", "fail"}]_vars

\* the third job has resolved /m/d/f to 3 with the cache of the root holding d from
\* an earlier resolution, while the other worker is resolving a path
C19_Witness ==
    \E w, x \in Workers :
        /\ wpc[w] = "open" /\ wloc[w].job.id = 3
        /\ wloc[w].job.absPath = PathF /\ wloc[w].ino = 3
        /\ 1 \in DOMAIN lookupDcache /\ DcHas(lookupDcache[1], <<"d">>)
        /\ wpc[x] = "lookup" /\ wloc[x].job.absPath = PathD

\* the registered index files with the given dataset id whose line at the given
\* index (from 0) exists and has a path, each with that path
ExpectedPrefetch(datasetCnt, index) ==
    {<<p, ExpectedLines(p)[index + 1].path>> :
        p \in {q \in DOMAIN indexFileInfoMap :
                  /\ objs[indexFileInfoMap[q]].datasetCnt = datasetCnt
                  /\ index + 1 <= Len(ExpectedLines(q))
                  /\ ExpectedLines(q)[index + 1].path # <<>>}}

\* C20: a PrefetchByIndex that started with no load under way and returns after its
\* Range has put exactly one item for each registry entry with its dataset id whose
\* list has the line index in range with a non-empty path, and that item is the
\* entry's FileInfo at the index; entries with another dataset id, a shorter list or
\* an empty line get nothing, so that a call whose index is out of range everywhere
\* puts nothing.  Each put appends that one item to filePathChan, and nothing else
\* is appended to filePathChan during the call.
C20_PrefetchByIndexEnqueuesMatchingLines ==
    [][\A c \in Callers :
         /\ (cpc[c] = "byIndex" /\ cloc[c].keys = {} /\ cloc[c].quiet /\ cpc'[c] = "idle") =>
               LET l == cloc[c]
                   expected == ExpectedPrefetch(l.datasetCnt, l.index)
               IN /\ Len(l.sent) = Cardinality(expected)
                  /\ {<<objs[l.sent[i].obj].path, l.sent[i].path>> : i \in 1..Len(l.sent)}
                        = expected
                  /\ \A i \in 1..Len(l.sent) :
                        /\ l.sent[i].line = l.index + 1
                        /\ objs[indexFileInfoMap[objs[l.sent[i].obj].path]].fileInfoMap.list
                             = l.sent[i].obj
         /\ (cpc[c] = "send" /\ cloc[c].op = "PrefetchByIndex" /\ cpc'[c] # "send") =>
               LET sent == cloc[c].after.sent
               IN filePathChan' = Append(filePathChan, sent[Len(sent)])
         /\ cpc[c] = "byIndex" =>
               (filePathChan' = filePathChan \/ filePathChan' = Tail(filePathChan))]_vars

\* IndexA is registered under dataset 1 and IndexC under dataset 2, both loaded; a
\* PrefetchByIndex of dataset 1 at index 0 has visited both and is about to return,
\* having put the first line of IndexA only
C20_Witness ==
    \E c \in Callers :
        /\ cpc[c] = "byIndex" /\ cloc[c].keys = {} /\ cloc[c].quiet
        /\ cloc[c].datasetCnt = "1" /\ cloc[c].index = 0
        /\ DOMAIN indexFileInfoMap = {IndexA, IndexC}
        /\ objs[indexFileInfoMap[IndexA]].datasetCnt = "1"
        /\ objs[indexFileInfoMap[IndexC]].datasetCnt = "2"
        /\ Len(cloc[c].sent) = 1
        /\ cloc[c].sent[1].path = <<"/", "d", "/", "f">>

\* C21: every entry of the registry has, as its own path, the key it is stored under.
C21_EntryPathIsItsKey ==
    \A p \in DOMAIN indexFileInfoMap : objs[indexFileInfoMap[p]].path = p

\* the entry at /idx/c is one that AddIndexFilepath stored over an expired entry, and
\* its load is over
C21_Witness ==
    /\ IndexC \in DOMAIN indexFileInfoMap
    /\ objs[indexFileInfoMap[IndexC]].replaces # 0
    /\ objs[indexFileInfoMap[IndexC]].fileInfoMap.len = 1
    /\ LoadDone(indexFileInfoMap[IndexC])

\* the indexes of the batches, batch by batch
RECURSIVE FlattenBatches(_)
FlattenBatches(batchArr) ==
    IF batchArr = <<>> THEN <<>> ELSE Head(batchArr) \o FlattenBatches(Tail(batchArr))

\* infos is, index by index in the order of indexes, the FileInfos of the lines
\* ExpectedPrefetch gives for the index, each once, in some order of the entries
RECURSIVE InfosMatch(_, _, _)
InfosMatch(infos, indexes, datasetCnt) ==
    IF indexes = <<>> THEN infos = <<>>
    ELSE LET index == Head(indexes)
             expected == ExpectedPrefetch(datasetCnt, index)
             n == Cardinality(expected)
         IN /\ Len(infos) >= n
            /\ {<<objs[infos[k].obj].path, infos[k].path>> : k \in 1..n} = expected
            /\ \A k \in 1..n :
                  /\ infos[k].line = index + 1
                  /\ objs[indexFileInfoMap[objs[infos[k].obj].path]].fileInfoMap.list
                       = infos[k].obj
            /\ InfosMatch(SubSeq(infos, n + 1, Len(infos)), Tail(indexes), datasetCnt)

\* C22: a GetBatchFileInfos that started with no load under way returns no error and,
\* for each requested index taken batch by batch in the order of the request, the
\* FileInfo at the index of each registry entry with the dataset id whose list has
\* the index in range with a non-empty path, and nothing for the other entries; no
\* step of the call changes the registry, a dentry cache or a queue.
C22_GetBatchFileInfosReturnsMatchingLines ==
    [][\A c \in Callers :
         cpc[c] = "getBatch" =>
           /\ cloc'[c] # cloc[c] =>
                 /\ <<indexFileInfoMap, objs, files>>' = <<indexFileInfoMap, objs, files>>
                 /\ <<indexInfoChan, filePathChan, downloadChan>>'
                      = <<indexInfoChan, filePathChan, downloadChan>>
                 /\ <<dcacheMap, lookupDcache>>' = <<dcacheMap, lookupDcache>>
           /\ (cpc'[c] = "idle" /\ cloc[c].quiet) =>
                 /\ lastRet'.op = "GetBatchFileInfos" /\ lastRet'.ret = "nil"
                 /\ InfosMatch(lastRet'.arg, FlattenBatches(cloc[c].batchArr),
                               cloc[c].datasetCnt)]_vars

\* with /idx/a and /idx/c both loaded under dataset 1, a GetBatchFileInfos of the
\* batches (2), (0) has returned the third line of /idx/a and then the first lines of
\* both
C22_Witness ==
    /\ lastRet.op = "GetBatchFileInfos"
    /\ Len(lastRet.arg) = 3
    /\ <<lastRet.arg[1].line, lastRet.arg[2].line, lastRet.arg[3].line>> = <<3, 1, 1>>
    /\ lastRet.arg[1].path = <<"/", "d", "/", "g">>
    /\ {objs[lastRet.arg[2].obj].path, objs[lastRet.arg[3].obj].path} = {IndexA, IndexC}

\* the inodes of the lines of ExpectedLines at the index, one for each registry
\* entry with the dataset id whose file has the line and whose line resolves, as a
\* set of <<index file, inode>>
ExpectedInodes(datasetCnt, index) ==
    {<<p, ExpectedLines(p)[index + 1].ino>> :
        p \in {q \in DOMAIN indexFileInfoMap :
                  /\ objs[indexFileInfoMap[q]].datasetCnt = datasetCnt
                  /\ index + 1 <= Len(ExpectedLines(q))
                  /\ ExpectedLines(q)[index + 1].ino # 0}}

\* the bag of inodes expected for a sequence of indexes, as a function from inode to
\* the number of times it is expected
RECURSIVE ExpectedInodeCount(_, _, _)
ExpectedInodeCount(datasetCnt, indexes, ino) ==
    IF indexes = <<>> THEN 0
    ELSE Cardinality({e \in ExpectedInodes(datasetCnt, Head(indexes)) : e[2] = ino})
           + ExpectedInodeCount(datasetCnt, Tail(indexes), ino)

\* every line of every registered index file has the inode the filesystem gives it
AllResolved ==
    \A p \in DOMAIN indexFileInfoMap :
        LET fim == objs[indexFileInfoMap[p]].fileInfoMap
        IN /\ fim.len = Len(ExpectedLines(p))
           /\ \A k \in 1..fim.len : files[fim.list][k].inoID = ExpectedLines(p)[k].ino

\* C23: a PrefetchInodeInfo without the putIcache function returns at once, having
\* made no call of the filesystem; one that collected no inode makes none either; otherwise it calls
\* ec.batchInodeGet once, with no inode 0, and hands every info returned to
\* ec.putIcache; when no load is under way and every line is resolved as the
\* filesystem has it, the inodes passed are exactly those of the requested lines of
\* the entries with the dataset id, each as often as it is requested.
C23_PrefetchInodeInfoGetsResolvedInodes ==
    [][/\ (nCalls' # nCalls /\ lastRet' # lastRet /\ lastRet'.op = "PrefetchInodeInfo") =>
            lastRet'.arg = [batchInodeGet |-> <<>>, infos |-> <<>>, putIcache |-> <<>>]
       /\ \A c \in Callers :
           (cpc[c] = "inodes" /\ cpc'[c] = "idle") =>
               LET l == cloc[c]
                   calls == lastRet'.arg.batchInodeGet
                   indexes == FlattenBatches(l.batchArr)
               IN /\ lastRet'.op = "PrefetchInodeInfo"
                  /\ l.inodes = <<>> =>
                        lastRet'.arg = [batchInodeGet |-> <<>>, infos |-> <<>>, putIcache |-> <<>>]
                  /\ l.inodes # <<>> =>
                        /\ calls = <<l.inodes>>
                        /\ \A k \in 1..Len(l.inodes) : l.inodes[k] # 0
                        /\ lastRet'.arg.putIcache = lastRet'.arg.infos
                  /\ (l.quiet /\ AllResolved) =>
                        \A ino \in 1..4 :
                            Cardinality({k \in 1..Len(l.inodes) : l.inodes[k] = ino})
                              = ExpectedInodeCount(l.datasetCnt, indexes, ino)]_vars

\* with /idx/a and /idx/c both loaded under dataset 1, a PrefetchInodeInfo of the
\* batches (2), (0) has passed the inode of /d/g and twice that of /d/f to
\* ec.batchInodeGet, and two of the three infos came back and went to ec.putIcache
C23_Witness ==
    /\ lastRet.op = "PrefetchInodeInfo"
    /\ Len(lastRet.arg.batchInodeGet) = 1
    /\ lastRet.arg.batchInodeGet[1] = <<4, 3, 3>>
    /\ lastRet.arg.infos = <<4, 3>>
    /\ lastRet.arg.putIcache = <<4, 3>>
    /\ DOMAIN indexFileInfoMap = {IndexA, IndexC}

\* C24: whenever the Range of a PrefetchByIndex visits a registry entry, the entry's
\* file list is empty or has every line of the index file: a list that is still being
\* parsed is never seen.
C24_FileListAppearsWhole ==
    [][\A c \in Callers :
         (cpc[c] = "byIndex" /\ cloc[c].keys # {} /\ cpc'[c] \in {"byIndex", "send"}
            /\ cloc'[c] # cloc[c]) =>
           LET after == IF cpc'[c] = "send" THEN cloc'[c].after ELSE cloc'[c]
           IN \A key \in cloc[c].keys \ after.keys :
                 key \in DOMAIN indexFileInfoMap =>
                    objs[indexFileInfoMap[key]].fileInfoMap.len
                       \in {0, Len(ExpectedLines(key))}]_vars

\* C25: when ReadData returns for a download job, with or without an error, every
\* buffer it took from the block pool with GetBlockBuf has been given back with
\* PutBlockBuf.
C25_BuffersReleasedOnEveryPath ==
    [][\A w \in Workers :
         (wpc[w] \in {"open", "fail"} /\ wpc'[w] = "idle") =>
            LET j == wloc[w].job.id
            IN /\ jobLog'[j].doneW = 1
               /\ jobLog'[j].get = jobLog'[j].put]_vars

\* C26: a download job has at most one successful OpenStream and never more
\* CloseStream calls than that; once its handler has returned, by any path, it has as
\* many CloseStream calls as successful OpenStream calls, none if the inode was not
\* resolved or OpenStream failed.
C26_OpenStreamPairedWithCloseStream ==
    \A j \in JobIds :
        /\ jobLog[j].close <= jobLog[j].open
        /\ jobLog[j].open <= 1
        /\ jobLog[j].doneW = 1 => jobLog[j].close = jobLog[j].open
        /\ jobLog[j].doneC = 1 => jobLog[j].open = 0

\* three jobs have been handled: one wrote its record, one failed after OpenStream
\* and one never had a stream opened
C26_Witness ==
    \E i, j, k \in JobIds :
        /\ jobLog[i].doneW = 1 /\ jobLog[i].open = 1 /\ jobLog[i].close = 1 /\ jobLog[i].put = 2
        /\ jobLog[j].doneW = 1 /\ jobLog[j].open = 1 /\ jobLog[j].close = 1 /\ jobLog[j].get = 1
           /\ jobLog[j].put = 0
        /\ jobLog[k].doneW = 1 /\ jobLog[k].open = 0 /\ jobLog[k].close = 0

\* the pass of LookupPathByCache's loop that worker w is about to make handles the
\* final component of the path: a name with only empty pieces after it
AtFinalComponent(w) ==
    /\ wpc[w] = "lookup"
    /\ wloc[w].dirs[wloc[w].index] # <<>>
    /\ \A k \in (wloc[w].index + 1)..Len(wloc[w].dirs) : wloc[w].dirs[k] = <<>>

\* C27: the pass of LookupPathByCache that handles the final component of the path
\* does not take its inode from lookupDcache, and puts no name into lookupDcache.
C27_FinalComponentBypassesTheCache ==
    [][\A w \in Workers :
         (AtFinalComponent(w) /\ wloc'[w] # wloc[w]) =>
            LET ino == wloc[w].ino
                dir == wloc[w].dirs[wloc[w].index]
                cached == ino \in DOMAIN lookupDcache /\ DcHas(lookupDcache[ino], dir)
            IN /\ wpc'[w] # "fail" => ~cached
               /\ ino \in DOMAIN lookupDcache' => ~DcHas(lookupDcache'[ino], dir)]_vars

\* the paths that have no non-empty component below the mount point
NoComponentPaths == {PathMount, PathMountSlash, PathSlashes}

\* C28: a download whose path has no non-empty component below the mount point never
\* gets an inode from LookupPathByCache (the worker never goes on to OpenStream), and
\* fails with the error "not cfs file".
C28_NoComponentIsNotCFS ==
    \A w \in Workers :
        (wpc[w] \in {"lookup", "open", "fail"} /\ wloc[w].job.absPath \in NoComponentPaths) =>
            /\ wpc[w] # "open"
            /\ wpc[w] = "fail" => wloc[w].err = "not cfs file"

\* C29: when getFileInode has failed for a line, LoadIndex sets the line's inode to 0,
\* leaves the registry as it is and goes on with the next line, or returns to the
\* worker's loop after the last line, with no removal of the entry.
C29_LineFailureIsSwallowed ==
    [][\A w \in Workers :
         (wpc[w] = "assign" /\ wloc[w].err # "nil" /\ wloc'[w] # wloc[w]) =>
            LET l == wloc[w]
            IN /\ files'[l.fileInfoMap.list][l.index].inoID = 0
               /\ indexFileInfoMap' = indexFileInfoMap
               /\ IF l.index < Len(ExpectedLines(objs[l.fileInfoMap.list].path))
                  THEN wpc'[w] = "resolve" /\ wloc'[w].index = l.index + 1
                  ELSE wpc'[w] = "idle"]_vars

\* the load of /idx/a is over and the entry is registered: the first line failed to
\* resolve and has inode 0, the third line after it has its inode
C29_Witness ==
    /\ IndexA \in DOMAIN indexFileInfoMap
    /\ LoadDone(indexFileInfoMap[IndexA])
    /\ LET a == files[objs[indexFileInfoMap[IndexA]].fileInfoMap.list]
       IN /\ Len(a) = 3
          /\ a[1].inoID = 0 /\ a[1].err \notin {"nil", "none"}
          /\ a[3].inoID = 4 /\ a[3].err = "nil"

\* C30: when readIndexFileByLine fails, LoadIndex resolves no inode and leaves
\* dcacheMap alone, and it removes from the registry the IndexInfo it was loading and
\* no other: an entry stored at the same path by a later AddIndexFilepath stays.
C30_ParseFailureRemovesOnlyItsEntry ==
    [][\A w \in Workers :
         (wpc[w] \in {"parse", "scan"} /\ wpc'[w] = "idle") =>
            LET o == wloc[w].indexInfo
                path == objs[o].path
            IN /\ dcacheMap' = dcacheMap
               /\ files' = files
               /\ \A p \in DOMAIN indexFileInfoMap :
                     indexFileInfoMap[p] # o =>
                        p \in DOMAIN indexFileInfoMap'
                          /\ indexFileInfoMap'[p] = indexFileInfoMap[p]
               /\ \A p \in DOMAIN indexFileInfoMap' : indexFileInfoMap'[p] # o]_vars

\* the worker is inside a handler (not in its select, not gone)
InHandler(w) == wpc[w] \notin {"idle", "exited", "none"}

\* C31: Close gets past wg.Wait() only when every worker and the janitor have left;
\* a worker leaves from its select (or by a panic inside ReadData) and the janitor
\* from its select, never from the middle of a handler or of a sweep; and once Close
\* is past wg.Wait() no worker takes an item and the janitor starts no sweep.
C31_CloseWaitsForHandlers ==
    [][/\ closePc' \in {"draining", "returned"} =>
             /\ \A w \in Workers : wpc'[w] \in {"exited", "none"}
             /\ jpc' = "exited"
       /\ closePc \in {"draining", "returned"} => UNCHANGED <<wpc, wloc, jpc, jloc>>
       /\ \A w \in Workers :
             (wpc[w] # "exited" /\ wpc'[w] = "exited") => wpc[w] \in {"idle", "open"}
       /\ (jpc # "exited" /\ jpc' = "exited") => jpc = "idle"]_vars

\* shutdown has been signalled and Close waits while a worker is still in ReadData
\* and the janitor is in the middle of its sweep
C31_Witness ==
    /\ closePc = "waiting"
    /\ closeC
    /\ \E w \in Workers : wpc[w] = "open"
    /\ jpc = "lookup"

\* C32: a pass of clearDownloadChan over a queued job takes the job off downloadChan,
\* decrements the wait-group of its response writer by one and does nothing else: no
\* byte is written to any response writer, no stream is opened or closed and no block
\* buffer is taken or returned for the job, and no worker has served or serves it.
C32_DrainDiscardsSilently ==
    [][(closePc = "draining" /\ downloadChan' # downloadChan) =>
          LET d == Head(downloadChan)
          IN /\ downloadChan' = Tail(downloadChan)
             /\ respOut' = respOut
             /\ respLog' = respLog
             /\ respWg' = [respWg EXCEPT ![d.resp] = @ - 1]
             /\ jobLog[d.id] = [add |-> 1, doneW |-> 0, doneC |-> 0,
                                get |-> 0, put |-> 0, open |-> 0, close |-> 0]
             /\ jobLog' = [jobLog EXCEPT ![d.id].doneC = 1]
             /\ UNCHANGED <<workerVars, janitorVars, regVars, cacheVars>>]_vars

\* Close has returned after its drain discarded a job that no worker had taken, and
\* the response writer of that job has received nothing
C32_Witness ==
    /\ closePc = "returned"
    /\ \E j \in JobIds : jobLog[j].doneC = 1 /\ jobLog[j].open = 0
    /\ \A rw \in Writers : respOut[rw] = <<>> /\ respWg[rw] = 0

\* the dcacheMap keys into which the load of IndexInfo o has put a child: the parent
\* directories of its lines that carry an inode (no entry is deleted where this is used)
UpsertedParents(o) ==
    LET list == objs[o].fileInfoMap.list
    IN IF list = 0 THEN {}
       ELSE {FsLookupPath(SplitDir(files[list][i].path)) :
               i \in {x \in 1..Len(files[list]) : files[list][x].inoID # 0}}

\* C33: when AddIndexFilepath(_, P, ttlMinute) with ttlMinute > 0 refreshes the
\* unexpired entry at P, every dcacheMap entry into which the load of P has put a
\* child expires ttlMinute after the refresh, whichever index created the entry.
C33_DcacheLifetimeFollowsIndexTTL ==
    [][\A c \in Callers :
         (/\ cpc[c] = "reset" /\ cpc'[c] # "reset"
          /\ cloc[c].ttlMinute > 0
          /\ ~(objs[cloc[c].old].ttl > 0 /\ now > objs[cloc[c].old].ttl)) =>
             \A k \in UpsertedParents(cloc[c].old) :
                 k \in DOMAIN dcacheMap' =>
                    dcacheMap'[k].dcache.expiration = now + cloc[c].ttlMinute]_vars

\* C34: when the janitor's minute sweep deletes a key from dcacheMap or from
\* lookupDcache, the entry stored at that key is expired at the moment of the Delete.
C34_SweepDeletesOnlyExpiredDentries ==
    [][/\ (jpc = "dcacheDelete" /\ jpc' # jpc /\ jloc[1] \in DOMAIN dcacheMap) =>
             IsExpired(dcacheMap[jloc[1]].dcache)
       /\ (jpc = "lookupDelete" /\ jpc' # jpc /\ jloc[1] \in DOMAIN lookupDcache) =>
             IsExpired(lookupDcache[jloc[1]])]_vars

RECURSIVE SumTotalRead(_)
SumTotalRead(ticks) ==
    IF ticks = <<>> THEN 0 ELSE Head(ticks).totalRead + SumTotalRead(Tail(ticks))

RECURSIVE SumAppRead(_)
SumAppRead(ticks) ==
    IF ticks = <<>> THEN 0 ELSE Head(ticks).appRead + SumAppRead(Tail(ticks))

\* C35: the totals logged by the one-second ticks so far, plus the total a tick has
\* swapped out and not yet logged, plus the current value of totalReadCount, are the
\* number of AddTotalReadCount calls; the same holds for appReadCount and
\* AddAppReadCount; and a tick that swapped out a total of 0 logs a hit rate of 100.
C35_ReadCountsConserved ==
    /\ SumTotalRead(readLog.ticks) + (IF jpc = "second" THEN jloc ELSE 0)
         + metrics.totalReadCount = readLog.total
    /\ SumAppRead(readLog.ticks) + metrics.appReadCount = readLog.app
    /\ \A i \in 1..Len(readLog.ticks) :
          readLog.ticks[i].totalRead = 0 => readLog.ticks[i].hitPercent = 100

\* three total reads and two app reads were counted around two ticks: the first tick
\* logged two reads of which one by the application, the second swapped out no total
\* read, took the app read that arrived meanwhile and logged 100, and one read is in
\* the counter
C35_Witness ==
    /\ readLog.total = 3 /\ readLog.app = 2
    /\ Len(readLog.ticks) = 2
    /\ readLog.ticks[1] = [totalRead |-> 2, appRead |-> 1, hitPercent |-> 50]
    /\ readLog.ticks[2] = [totalRead |-> 0, appRead |-> 1, hitPercent |-> 100]
    /\ metrics = [appReadCount |-> 0, totalReadCount |-> 1]

\* C36: when the janitor's minute sweep deletes a key from indexFileInfoMap, the
\* IndexInfo registered at that key is expired at the moment of the Delete (its ttl
\* is set and has passed).
C36_SweepDeletesOnlyExpiredIndexes ==
    [][(jpc = "indexDelete" /\ jpc' # jpc /\ jloc[1] \in DOMAIN indexFileInfoMap) =>
          LET indexInfo == objs[indexFileInfoMap[jloc[1]]]
          IN indexInfo.ttl > 0 /\ now > indexInfo.ttl]_vars

\* C37: when AddIndexFilepath returns an error, NotFound from os.Stat or Closed from
\* putIndexInfoChan, the registry has no entry at the path that holds the IndexInfo
\* this call allocated.
C37_FailedAddIndexLeavesNoEntry ==
    [][\A c \in Callers :
         (/\ cpc[c] = "stat" /\ cpc'[c] = "idle"
          /\ lastRet' # lastRet /\ lastRet'.op = "AddIndex" /\ lastRet'.ret # "nil") =>
             ~(/\ cloc[c].path \in DOMAIN indexFileInfoMap'
               /\ indexFileInfoMap'[cloc[c].path] = cloc[c].new)]_vars

\* C38: when AddIndexFilepath(datasetCnt, path, _) returns nil, after a refresh in
\* place or after its enqueue, the IndexInfo registered at path has that datasetCnt.
C38_SuccessfulAddIndexSetsDataset ==
    [][\A c \in Callers :
         /\ (cpc[c] = "reset" /\ cpc'[c] = "idle") =>
               /\ cloc[c].path \in DOMAIN indexFileInfoMap'
               /\ objs'[indexFileInfoMap'[cloc[c].path]].datasetCnt
                    = objs[cloc[c].new].datasetCnt
         /\ (cpc[c] = "send" /\ cpc'[c] = "idle" /\ cloc[c].op = "AddIndex") =>
               LET path == objs[cloc[c].item].path
               IN path \in DOMAIN indexFileInfoMap' =>
                     objs'[indexFileInfoMap'[path]].datasetCnt
                       = objs[cloc[c].item].datasetCnt]_vars

\* C39: under fair scheduling, once Close has been called it returns.
C39_CloseEventuallyReturns == (closePc = "locking") ~> (closePc = "returned")

\* C40: when LookupPathByCache takes a component's inode from the lookupDcache entry
\* of the parent (the entry is there and has the name), that entry is not expired.
C40_LookupSkipsExpiredCache ==
    [][\A w \in Workers :
         (/\ wpc[w] = "lookup" /\ wloc'[w] # wloc[w]
          /\ wloc[w].dirs[wloc[w].index] \notin {<<"/">>, <<>>}
          /\ wloc[w].ino \in DOMAIN lookupDcache
          /\ DcHas(lookupDcache[wloc[w].ino], wloc[w].dirs[wloc[w].index])) =>
             ~IsExpired(lookupDcache[wloc[w].ino])]_vars

====
